---------------------------- MODULE Spec2Model ----------------------------
(***************************************************************************)
(* A model of pons: the depth-bounded, rate-limited site crawler           *)
(* (package scraper) and the similarity search over the document store     *)
(* (packages api and storage).                                             *)
(*                                                                         *)
(* These specifications share the module:                                  *)
(*   SpecCrawl   one GetAllPaths call, the recursion of Crawl unfolded     *)
(*               into an explicit call stack;                              *)
(*   SpecSite    the same call on a site of three pages with forward links *)
(*               only;                                                     *)
(*   SpecLimiter concurrent callers of fetchURL on one Scraper, with a     *)
(*               discrete clock;                                           *)
(*   SpecSearch  the ranked Search of package api over a stored corpus;    *)
(*   SpecCosine  cosineSimilarity as a pure function, with the rounding of *)
(*               its floating-point operations;                            *)
(*   SpecStore   the operations of package storage on the table documents  *)
(*               and the tool list_documents;                              *)
(*   SpecPage    GetContent, GetMetadata and ScrapeContent of one Scraper  *)
(*               on the parsed document of its URL;                        *)
(*   SpecRepeat  several GetAllPaths calls on one Scraper, on a site whose *)
(*               page /a is linked with and without a query string;        *)
(*   SpecCycleFair  one GetAllPaths call on that site, with fairness, for  *)
(*               termination;                                              *)
(*   SpecChain   GetContent followed by GetAllPaths, every fetch passing   *)
(*               the limiter;                                              *)
(*   SpecLinks   extractLinks as a pure function of a parsed document;     *)
(*   SpecLimiterFair  the callers of fetchURL with fairness, for progress; *)
(*   SpecBest    the single-result Search of package api.                  *)
(***************************************************************************)
EXTENDS Integers, Sequences, FiniteSets, TLC

(***************************************************************************)
(* Bounds of the model.                                                    *)
(***************************************************************************)
\* longest list of anchors on one served page
MaxLinks == 2
\* largest configured Config.MaxDepth
MaxDepthBound == 2
\* largest configured Config.MaxConcurrent
MaxConcBound == 2
\* largest configured Config.RequestDelay, in clock ticks
MaxDelayBound == 2
\* number of goroutines calling fetchURL on the one Scraper
NumCallers == 2
\* fetchURL calls made on the Scraper, over all goroutines
MaxCalls == 3
\* last tick of the clock
MaxTime == 3
\* largest number of stored documents
MaxDocs == 3
\* largest numResults
MaxK == 3
\* bits of significand of the modelled float64 (Go's has 53)
SigBits == 8
\* largest absolute value of a vector component given to cosineSimilarity
MaxComp == 3
\* children of <head> and of <body> in a served document
MaxKids == 2
\* GetAllPaths calls made on one Scraper
MaxRuns == 2

VARIABLES
  \* ---- Scraper configuration and crawl session (SpecCrawl)
  cfgMaxDepth,          \* Config.MaxDepth
  cfgMaxConcurrent,     \* Config.MaxConcurrent = cap(requestSem)
  seedOK,               \* whether url.Parse(s.URL) succeeds
  result,               \* GetAllPaths: "idle" | "running" | "ok" | "error"
  stack,                \* the Crawl activations, innermost last
  calls,                \* every Crawl activation made so far, with its outcome
  visited,              \* the visited map of GetAllPaths (set of URL strings)
  paths,                \* the paths map of GetAllPaths (set of path keys)
  SubPaths,             \* Scraper.SubPaths
  SubPathsHTMLContent,  \* Scraper.SubPathsHTMLContent, path key -> body
  fetchLog,             \* the URL strings fetchURL was called with, in order
  errLog,               \* the "Error crawling" lines printed by Crawl
  atCall,               \* the GetAllPaths calls begun so far, and SubPaths and
                        \* SubPathsHTMLContent as the last of them found them
  held,                 \* number of tokens in requestSem
  \* ---- concurrent callers of fetchURL (SpecLimiter)
  cfgRequestDelay,      \* Config.RequestDelay, in clock ticks
  now,                  \* the wall clock
  pc,                   \* position of each caller inside fetchURL
  callHost,             \* host of the URL each caller fetches
  wake,                 \* end of each caller's time.Sleep
  nCalls,               \* fetchURL calls made so far
  slots,                \* slots of requestSem each caller's call holds
  lastOutcome,          \* how the fetchURL call that returned last ended
  mutex,                \* holder of Scraper.mutex, 0 when free
  lastRequestTime,      \* Scraper.lastRequestTime, host -> time
  lastGap,              \* host -> time between the starts of its last two requests
  \* ---- the document store and one Search call (SpecSearch)
  store,                \* the rows of table documents, in the order SELECT yields them
  query,                \* the embedding of the query
  numResults,           \* the cap on the number of results
  searchCtx,            \* the context argument, "" for all contexts
  searchPc,             \* "ready" | "done"
  searchVariant,        \* which Search ran: "none" | "query" | "embedding"
  searchOut,            \* the returned []SearchResult
  searchErr,            \* the returned error, "" for nil
  \* ---- calls of cosineSimilarity (SpecCosine)
  vecA,                 \* the first vector
  vecB,                 \* the second vector
  cosDone,              \* the calls made: "ab", "ba", "aa"
  cosOut,               \* call -> what cosineSimilarity returned
  \* ---- operations on the table documents (SpecStore)
  table,                \* the rows of table documents, in rowid order
  lastUpsert,           \* URL -> the document of the last successful upsert
                        \* of the URL whose row was not removed since
  lastOp,               \* the last operation: its arguments, the table
                        \* before it and what it returned
  \* ---- one Scraper and the page at its URL (SpecPage)
  page,                 \* the document the server holds at s.URL
  Content,              \* Scraper.Content, NilNode for nil
  Metadata,             \* Scraper.Metadata
  contentFetched,       \* whether a GetContent call has succeeded
  pageOp                \* the last method call and what it returned

crawlVars == <<seedOK, result, stack, calls, visited, paths, SubPaths,
               SubPathsHTMLContent, fetchLog, errLog, atCall>>
cfgVars == <<cfgMaxDepth, cfgMaxConcurrent>>
searchVars == <<store, query, numResults, searchCtx, searchPc, searchVariant,
                searchOut, searchErr>>
cosVars == <<vecA, vecB, cosDone, cosOut>>
dbVars == <<table, lastUpsert, lastOp>>
pageVars == <<page, Content, Metadata, contentFetched, pageOp>>
limVars == <<cfgRequestDelay, now, pc, callHost, wake, nCalls, slots,
             lastOutcome, mutex, lastRequestTime, lastGap>>

(***************************************************************************)
(* URLs.  A parsed URL is a record of host, path and query (RawQuery, ""   *)
(* when the URL has none); an href is a record of kind "abs" (absolute     *)
(* http URL), "rel" (path-absolute reference) or "bad" (url.Parse fails).  *)
(***************************************************************************)
URLQ(h, p, q) == [host |-> h, path |-> p, query |-> q]
URL(h, p) == URLQ(h, p, "")
AbsQ(h, p, q) == [kind |-> "abs", host |-> h, path |-> p, query |-> q]
Abs(h, p) == AbsQ(h, p, "")
Rel(p) == [kind |-> "rel", host |-> "", path |-> p, query |-> ""]
BadHref == [kind |-> "bad", host |-> "", path |-> "", query |-> ""]

SeedURL == URL("ex.com", "/")
PageA == URL("ex.com", "/a")
PageB == URL("ex.com", "/b")
PageX == URL("other.com", "/b")

\* url.URL.String(): scheme, host, path and, when there is one, "?" and the
\* query, concatenated; injective on the URLs of the model, so the string is
\* kept as the sequence of its parts.
String(u) ==
  IF u.query = "" THEN <<"http://", u.host, u.path>>
  ELSE <<"http://", u.host, u.path, "?", u.query>>

\* url.Parse(href): fails on a malformed href
ParseOK(href) == href.kind # "bad"

\* baseURL.ResolveReference(parsedLink): an absolute reference is taken as it
\* is, an empty reference is the base, a path-absolute one keeps the base's host
ResolveReference(base, ref) ==
  IF ref.kind = "abs" THEN URLQ(ref.host, ref.path, ref.query)
  ELSE IF ref.path = "" /\ ref.query = "" THEN base
  ELSE URLQ(base.host, ref.path, ref.query)

SameHost_any(link, base) == TRUE
\* extractLinks, line 511, first conjunct
SameHost(link, base) == link.host = base.host

\* extractLinks: the anchors of doc in document order, parsed, resolved against
\* baseURL, filtered to the base's host and to the URLs not yet visited
RECURSIVE extractLinks(_, _, _)
extractLinks(doc, baseURL, vis) ==
  IF doc = <<>> THEN <<>>
  ELSE LET href == Head(doc)
           rest == extractLinks(Tail(doc), baseURL, vis)
       IN IF ~ParseOK(href) THEN rest
          ELSE LET parsedLink == ResolveReference(baseURL, href)
               IN IF SameHost(parsedLink, baseURL) /\ String(parsedLink) \notin vis
                  THEN <<parsedLink>> \o rest
                  ELSE rest

\* the key of the paths map: currentURL.Path, "/" when empty
PathKey(u) == IF u.path = "" THEN "/" ELSE u.path

\* the hrefs pages of the crawled site carry
CrawlHrefs == {Abs("ex.com", "/a"), Abs("ex.com", "/b"), Abs("other.com", "/b")}

\* the elements of a sequence
Range(seq) == {seq[i] : i \in 1..Len(seq)}

RECURSIVE SeqsUpTo(_, _)
SeqsUpTo(S, n) ==
  IF n = 0 THEN {<<>>}
  ELSE LET shorter == SeqsUpTo(S, n - 1)
       IN shorter \cup {Append(s, x) : s \in {t \in shorter : Len(t) = n - 1}, x \in S}

\* the documents a server may return: any list of at most MaxLinks anchors
Docs == SeqsUpTo(CrawlHrefs, MaxLinks)

\* A site of three pages besides the seed whose links only lead forward
\* (/a before /b before /c): its documents are the lists of at most MaxLinks
\* anchors in that order.
PageC == URL("ex.com", "/c")
SiteHrefs == <<Abs("ex.com", "/a"), Abs("ex.com", "/b"), Abs("ex.com", "/c")>>
SiteDocs ==
  {d \in SeqsUpTo(Range(SiteHrefs), MaxLinks) :
     \A i, j \in 1..Len(d) :
        i < j => \E m, n \in 1..Len(SiteHrefs) :
                    m < n /\ d[i] = SiteHrefs[m] /\ d[j] = SiteHrefs[n]}

\* A site whose page /a is linked with and without a query string: its
\* documents are the lists of at most MaxLinks such anchors, none twice.
RepeatDocs ==
  {d \in SeqsUpTo({Abs("ex.com", "/a"), AbsQ("ex.com", "/a", "p=2")}, MaxLinks) :
     \A i, j \in 1..Len(d) : i # j => d[i] # d[j]}

\* the ways fetchURL fails after it has passed the limiter
FetchErrors == {"request", "timeout", "status", "contentType", "body", "parse"}


(***************************************************************************)
(* The crawl: GetAllPaths and the recursion of Crawl.                      *)
(* A Crawl activation is a record of calls; its frame on the stack holds   *)
(* the position of the activation (pc) and the loop index over its links.  *)
(***************************************************************************)
NewCall(parent, idx, u, depth) ==
  [parent |-> parent, idx |-> idx, url |-> u, depth |-> depth,
   outcome |-> "running", fetched |-> FALSE, links |-> <<>>]

Frame(id) == [id |-> id, pc |-> "enter", i |-> 1]

top == stack[Len(stack)]
cur == calls[top.id]

SemHasRoom_off(h, cap) == h <= cap
\* a send on the buffered channel requestSem proceeds while it is not full
SemHasRoom(h, cap) == h < cap

Releases_onSuccess(outcome) == IF outcome = "ok" THEN 1 ELSE 0
\* fetchURL, line 444: the deferred receive runs on every return after it
Releases(outcome) == 1

DepthExceeded_late(depth, maxDepth) == depth > maxDepth + 1
\* Crawl, line 545
DepthExceeded(depth, maxDepth) == depth > maxDepth

MarkVisited_never(vis, urlStr) == vis
\* Crawl, line 554
MarkVisited(vis, urlStr) == vis \cup {urlStr}

CrawlErr_swallow(fetchFailed) == FALSE
\* Crawl, lines 558-560: a failed fetch makes this Crawl call return an error
CrawlErr(fetchFailed) == fetchFailed

AfterLink_break(i, err, n) == IF err THEN n + 1 ELSE i + 1
\* Crawl, lines 572-577: the error of a link is printed and the loop goes on
AfterLink(i, err, n) == i + 1

\* what a GetAllPaths call finds when it begins, n calls having begun before it
CallStart(n) ==
  [n |-> n + 1, SubPaths |-> SubPaths, content |-> SubPathsHTMLContent]

\* GetAllPaths, line 408: the seed does not parse; maxRuns bounds the number
\* of GetAllPaths calls made on the Scraper
GetAllPathsInvalidUpTo(maxRuns) ==
  /\ result # "running"
  /\ atCall.n < maxRuns
  /\ ~seedOK
  /\ result' = "error"
  /\ atCall' = CallStart(atCall.n)
  /\ UNCHANGED <<seedOK, stack, calls, visited, paths, SubPaths,
                 SubPathsHTMLContent, fetchLog, errLog, held, cfgVars, limVars, searchVars,
                 cosVars, dbVars, pageVars>>

\* the only GetAllPaths call made on the Scraper
GetAllPathsInvalid == GetAllPathsInvalidUpTo(1)

\* one of several GetAllPaths calls made on the Scraper
GetAllPathsInvalidAgain == GetAllPathsInvalidUpTo(MaxRuns)

\* GetAllPaths, lines 408-418: fresh visited and paths maps, Crawl(seed, 0)
GetAllPathsBeginUpTo(maxRuns) ==
  /\ result # "running"
  /\ atCall.n < maxRuns
  /\ seedOK
  /\ result' = "running"
  /\ atCall' = CallStart(atCall.n)
  /\ visited' = {}
  /\ paths' = {}
  /\ calls' = <<NewCall(0, 0, SeedURL, 0)>>
  /\ stack' = <<Frame(1)>>
  /\ UNCHANGED <<seedOK, SubPaths, SubPathsHTMLContent, fetchLog, errLog,
                 held, cfgVars, limVars, searchVars,
                 cosVars, dbVars, pageVars>>

\* the only GetAllPaths call made on the Scraper
GetAllPathsBegin == GetAllPathsBeginUpTo(1)

\* one of several GetAllPaths calls made on the Scraper
GetAllPathsAgain == GetAllPathsBeginUpTo(MaxRuns)

SubPathsAfter_always(err, old, found) == found
\* GetAllPaths, lines 419-429: s.SubPaths is assigned the paths found only
\* when Crawl returned no error
SubPathsAfter(err, old, found) == IF err THEN old ELSE found

\* The return of the innermost Crawl call with the given outcome.  The seed's
\* call returns into GetAllPaths (lines 419-431), any other into the loop of
\* its parent (lines 572-577).
Return(outcome, err) ==
  /\ calls' = [calls EXCEPT ![top.id].outcome = outcome]
  /\ IF Len(stack) = 1
     THEN /\ stack' = <<>>
          /\ result' = IF err THEN "error" ELSE "ok"
          /\ SubPaths' = SubPathsAfter(err, SubPaths, paths)
          /\ errLog' = errLog
     ELSE LET parent == stack[Len(stack) - 1]
              n == Len(calls[parent.id].links)
          IN /\ stack' = Append(SubSeq(stack, 1, Len(stack) - 2),
                                [parent EXCEPT !.i = AfterLink(parent.i, err, n)])
             /\ errLog' = IF err THEN Append(errLog, String(cur.url)) ELSE errLog
             /\ UNCHANGED <<result, SubPaths>>

\* Crawl, lines 545-547
CrawlDepthExceeded ==
  /\ result = "running"
  /\ top.pc = "enter"
  /\ DepthExceeded(cur.depth, cfgMaxDepth)
  /\ Return("skippedDepth", FALSE)
  /\ UNCHANGED <<seedOK, atCall, visited, paths, SubPathsHTMLContent, fetchLog, held,
                 cfgVars, limVars, searchVars,
                 cosVars, dbVars, pageVars>>

\* Crawl, lines 550-553
CrawlSkipVisited ==
  /\ result = "running"
  /\ top.pc = "enter"
  /\ ~DepthExceeded(cur.depth, cfgMaxDepth)
  /\ String(cur.url) \in visited
  /\ Return("skippedVisited", FALSE)
  /\ UNCHANGED <<seedOK, atCall, visited, paths, SubPathsHTMLContent, fetchLog, held,
                 cfgVars, limVars, searchVars,
                 cosVars, dbVars, pageVars>>

\* Crawl, line 554
CrawlMarkVisited ==
  /\ result = "running"
  /\ top.pc = "enter"
  /\ ~DepthExceeded(cur.depth, cfgMaxDepth)
  /\ String(cur.url) \notin visited
  /\ visited' = MarkVisited(visited, String(cur.url))
  /\ stack' = [stack EXCEPT ![Len(stack)].pc = "fetch"]
  /\ UNCHANGED <<seedOK, atCall, result, calls, paths, SubPaths, SubPathsHTMLContent,
                 fetchLog, errLog, held, cfgVars, limVars, searchVars,
                 cosVars, dbVars, pageVars>>

\* Crawl, line 557, into fetchURL up to line 444: the call takes a slot of
\* requestSem (it blocks while all cfgMaxConcurrent slots are taken)
CrawlFetchBegin ==
  /\ result = "running"
  /\ top.pc = "fetch"
  /\ SemHasRoom(held, cfgMaxConcurrent)
  /\ held' = held + 1
  /\ fetchLog' = Append(fetchLog, String(cur.url))
  /\ calls' = [calls EXCEPT ![top.id].fetched = TRUE]
  /\ stack' = [stack EXCEPT ![Len(stack)].pc = "fetching"]
  /\ UNCHANGED <<seedOK, atCall, result, visited, paths, SubPaths,
                 SubPathsHTMLContent, errLog, cfgVars, limVars, searchVars,
                 cosVars, dbVars, pageVars>>

\* fetchURL fails (lines 450-485; Crawl treats every kind of failure alike),
\* the deferred release runs, Crawl returns the error (lines 558-560)
CrawlFetchFail ==
  /\ result = "running"
  /\ top.pc = "fetching"
  /\ \E o \in FetchErrors : held' = held - Releases(o)
  /\ Return("failed", CrawlErr(TRUE))
  /\ UNCHANGED <<seedOK, atCall, visited, paths, SubPathsHTMLContent, fetchLog,
                 cfgVars, limVars, searchVars,
                 cosVars, dbVars, pageVars>>

\* Crawl, lines 562-571: path and body of the fetched page are recorded and
\* its links extracted
Stored(doc) ==
  /\ paths' = paths \cup {PathKey(cur.url)}
  /\ SubPathsHTMLContent' =
       [k \in DOMAIN SubPathsHTMLContent \cup {PathKey(cur.url)} |->
          IF k = PathKey(cur.url) THEN [from |-> String(cur.url), body |-> doc]
          ELSE SubPathsHTMLContent[k]]
  /\ calls' = [calls EXCEPT ![top.id].links = extractLinks(doc, SeedURL, visited)]
  /\ stack' = [stack EXCEPT ![Len(stack)].pc = "loop"]

\* fetchURL returns a document (line 487), the deferred release runs, Crawl
\* records path and body and extracts the links (lines 562-571)
CrawlFetchOkFrom(docs) ==
  /\ result = "running"
  /\ top.pc = "fetching"
  /\ \E doc \in docs :
       /\ held' = held - Releases("ok")
       /\ Stored(doc)
  /\ UNCHANGED <<seedOK, atCall, result, visited, SubPaths, fetchLog, errLog, cfgVars, limVars, searchVars,
                 cosVars, dbVars, pageVars>>

\* a successful fetch from a server that may return any document
CrawlFetchOk == CrawlFetchOkFrom(Docs)

\* a successful fetch from the site of SiteDocs
SiteFetchOk == CrawlFetchOkFrom(SiteDocs)

\* a successful fetch from the site of RepeatDocs
RepeatFetchOk == CrawlFetchOkFrom(RepeatDocs)

LinkAt_backwards(links, i) == links[Len(links) + 1 - i]
\* Crawl, line 572: range yields the links in the order of the slice
LinkAt(links, i) == links[i]

\* Crawl, lines 572-573: the recursive call for the next link, one level deeper
CrawlNextLink ==
  /\ result = "running"
  /\ top.pc = "loop"
  /\ top.i <= Len(cur.links)
  /\ calls' = Append(calls, NewCall(top.id, top.i, LinkAt(cur.links, top.i), cur.depth + 1))
  /\ stack' = Append(stack, Frame(Len(calls) + 1))
  /\ UNCHANGED <<seedOK, atCall, result, visited, paths, SubPaths, SubPathsHTMLContent,
                 fetchLog, errLog, held, cfgVars, limVars, searchVars,
                 cosVars, dbVars, pageVars>>

\* Crawl, line 579: all links done
CrawlDone ==
  /\ result = "running"
  /\ top.pc = "loop"
  /\ top.i > Len(cur.links)
  /\ Return("ok", FALSE)
  /\ UNCHANGED <<seedOK, atCall, visited, paths, SubPathsHTMLContent, fetchLog, held,
                 cfgVars, limVars, searchVars,
                 cosVars, dbVars, pageVars>>


(***************************************************************************)
(* The limiter: fetchURL and waitForRateLimit under concurrent callers.    *)
(***************************************************************************)
Callers == 1..NumCallers
Hosts == {"ex.com", "other.com"}

\* the ways a fetchURL call that passed the limiter ends
Outcomes == FetchErrors \cup {"ok"}

\* fetchURL, lines 437-440: the URL does not parse, nothing else happens
FetchInvalidURL(p) ==
  /\ pc[p] = "idle"
  /\ nCalls < MaxCalls
  /\ nCalls' = nCalls + 1
  /\ lastOutcome' = "invalidURL"
  /\ UNCHANGED <<cfgRequestDelay, now, pc, callHost, wake, slots, mutex,
                 lastRequestTime, lastGap, held, cfgVars, crawlVars, searchVars,
                 cosVars, dbVars, pageVars>>

\* fetchURL, lines 437-443: the URL parses, the caller enters waitForRateLimit
FetchCall(p) ==
  /\ pc[p] = "idle"
  /\ nCalls < MaxCalls
  /\ \E h \in Hosts : callHost' = [callHost EXCEPT ![p] = h]
  /\ nCalls' = nCalls + 1
  /\ pc' = [pc EXCEPT ![p] = "sem"]
  /\ UNCHANGED <<cfgRequestDelay, now, wake, slots, lastOutcome, mutex, lastRequestTime,
                 lastGap, held, cfgVars, crawlVars, searchVars,
                 cosVars, dbVars, pageVars>>

\* waitForRateLimit, line 285
SemAcquire(p) ==
  /\ pc[p] = "sem"
  /\ SemHasRoom(held, cfgMaxConcurrent)
  /\ held' = held + 1
  /\ slots' = [slots EXCEPT ![p] = @ + 1]
  /\ pc' = [pc EXCEPT ![p] = "lock"]
  /\ UNCHANGED <<cfgRequestDelay, now, callHost, wake, nCalls, lastOutcome,
                 mutex, lastRequestTime, lastGap, cfgVars, crawlVars, searchVars,
                 cosVars, dbVars, pageVars>>

TooRecent_always(exists, elapsed, delay) == TRUE
TooRecent_never(exists, elapsed, delay) == FALSE
\* waitForRateLimit, lines 292-296: the host has an entry and less than the
\* delay has passed since
TooRecent(exists, elapsed, delay) == exists /\ elapsed < delay

HolderAsleep_self(p) == p
\* waitForRateLimit, line 297: the mutex is unlocked before the sleep
HolderAsleep(p) == 0

\* waitForRateLimit, lines 288-302: under the mutex, read the host's last
\* request time; too recent: unlock and go to sleep for the rest of the delay,
\* otherwise keep the mutex
RateCheck(p) ==
  /\ pc[p] = "lock"
  /\ mutex = 0
  /\ LET h == callHost[p]
         exists == h \in DOMAIN lastRequestTime
         \* without an entry the map yields the zero Time, which lies further
         \* back than any delay
         elapsed == IF exists THEN now - lastRequestTime[h] ELSE cfgRequestDelay
     IN IF TooRecent(exists, elapsed, cfgRequestDelay)
        THEN /\ wake' = [wake EXCEPT ![p] = now + (cfgRequestDelay - elapsed)]
             /\ pc' = [pc EXCEPT ![p] = "sleep"]
             /\ mutex' = HolderAsleep(p)
        ELSE /\ pc' = [pc EXCEPT ![p] = "stamp"]
             /\ mutex' = p
             /\ wake' = wake
  /\ UNCHANGED <<cfgRequestDelay, now, callHost, nCalls, slots, lastOutcome,
                 lastRequestTime, lastGap, held, cfgVars, crawlVars, searchVars,
                 cosVars, dbVars, pageVars>>

\* waitForRateLimit, lines 299-300: the sleep is over, the mutex is taken again
SleepDone(p) ==
  /\ pc[p] = "sleep"
  /\ now >= wake[p]
  /\ mutex = 0
  /\ mutex' = p
  /\ pc' = [pc EXCEPT ![p] = "stamp"]
  /\ UNCHANGED <<cfgRequestDelay, now, callHost, wake, nCalls, slots,
                 lastOutcome, lastRequestTime, lastGap, held, cfgVars, crawlVars, searchVars,
                 cosVars, dbVars, pageVars>>

\* waitForRateLimit, lines 305-306: stamp the host with the current time and
\* unlock; the request starts
Stamp(p) ==
  /\ pc[p] = "stamp"
  /\ mutex = p
  /\ lastRequestTime' =
       [h \in DOMAIN lastRequestTime \cup {callHost[p]} |->
          IF h = callHost[p] THEN now ELSE lastRequestTime[h]]
  /\ lastGap' =
       IF callHost[p] \in DOMAIN lastRequestTime
       THEN [h \in DOMAIN lastGap \cup {callHost[p]} |->
               IF h = callHost[p] THEN now - lastRequestTime[h] ELSE lastGap[h]]
       ELSE lastGap
  /\ mutex' = 0
  /\ wake' = [wake EXCEPT ![p] = 0]
  /\ pc' = [pc EXCEPT ![p] = "request"]
  /\ UNCHANGED <<cfgRequestDelay, now, callHost, nCalls, slots,
                 lastOutcome, held, cfgVars, crawlVars, searchVars,
                 cosVars, dbVars, pageVars>>

\* fetchURL, lines 447-487: the request ends in one of its ways and the
\* deferred function of line 444 takes the slot back
FetchReturn(p) ==
  /\ pc[p] = "request"
  /\ \E o \in Outcomes :
       /\ held' = held - Releases(o)
       /\ slots' = [slots EXCEPT ![p] = @ - Releases(o)]
       /\ lastOutcome' = o
  /\ pc' = [pc EXCEPT ![p] = "idle"]
  /\ callHost' = [callHost EXCEPT ![p] = "ex.com"]
  /\ UNCHANGED <<cfgRequestDelay, now, wake, nCalls, mutex,
                 lastRequestTime, lastGap, cfgVars, crawlVars, searchVars,
                 cosVars, dbVars, pageVars>>

\* the clock advances
Tick ==
  /\ now < MaxTime
  /\ now' = now + 1
  /\ UNCHANGED <<cfgRequestDelay, pc, callHost, wake, nCalls, slots,
                 lastOutcome, mutex, lastRequestTime, lastGap, held, cfgVars,
                 crawlVars, searchVars,
                 cosVars, dbVars, pageVars>>

\* the clock advances while a caller sleeps
Elapse ==
  /\ \E p \in Callers : pc[p] = "sleep" /\ now < wake[p]
  /\ now' = now + 1
  /\ UNCHANGED <<cfgRequestDelay, pc, callHost, wake, nCalls, slots,
                 lastOutcome, mutex, lastRequestTime, lastGap, held, cfgVars,
                 crawlVars, searchVars,
                 cosVars, dbVars, pageVars>>


(***************************************************************************)
(* The store and the ranked Search.                                        *)
(* Embedding components are integers (tenths): cosine similarity does not  *)
(* change when a vector is scaled, so <<7, 7>> stands for [0.7, 0.7] and   *)
(* <<10, 0>> for [1, 0].  A score is kept exactly, as the pair (num, den2) *)
(* that denotes num / sqrt(den2).                                          *)
(***************************************************************************)
Vecs == {<<>>, <<10>>, <<10, 0>>, <<0, 10>>, <<7, 7>>, <<0, 0>>, <<-10, 0>>}
QueryVecs == {<<10, 0>>, <<0, 0>>}

\* the (context, embedding) pairs of stored rows: context "a" with every
\* embedding, context "b" with two of them
RowKinds == ({"a"} \X Vecs) \cup ({"b"} \X {<<10, 0>>, <<7, 7>>})

\* the stores: up to MaxDocs rows, row i has URL i (url is the primary key)
Stores ==
  UNION {{[i \in 1..n |-> [url |-> i, context |-> f[i][1], emb |-> f[i][2]]] :
            f \in [1..n -> RowKinds]} : n \in 0..MaxDocs}

RECURSIVE SumProd(_, _, _)
\* the loop of cosineSimilarity, lines 253-257, for one of its three sums
SumProd(a, b, i) == IF i = 0 THEN 0 ELSE SumProd(a, b, i - 1) + a[i] * b[i]

\* cosineSimilarity, lines 247-264
cosineSimilarity(a, b) ==
  IF Len(a) # Len(b) THEN [err |-> TRUE, num |-> 0, den2 |-> 1]
  ELSE LET dotProduct == SumProd(a, b, Len(a))
           aMagnitude == SumProd(a, a, Len(a))
           bMagnitude == SumProd(b, b, Len(a))
       IN IF aMagnitude = 0 \/ bMagnitude = 0
          THEN [err |-> FALSE, num |-> 0, den2 |-> 1]
          ELSE [err |-> FALSE, num |-> dotProduct, den2 |-> aMagnitude * bMagnitude]

\* s.Score > t.Score for scores num / sqrt(den2)
ScoreGT(s, t) ==
  IF s.num >= 0 /\ t.num >= 0 THEN s.num * s.num * t.den2 > t.num * t.num * s.den2
  ELSE IF s.num >= 0 THEN TRUE
  ELSE IF t.num >= 0 THEN FALSE
  ELSE s.num * s.num * t.den2 < t.num * t.num * s.den2

FilterContext_all(rows, ctx) == rows
RECURSIVE FilterContext(_, _)
\* WHERE context = ?, added only for a non-empty context argument
FilterContext(rows, ctx) ==
  IF rows = <<>> THEN <<>>
  ELSE IF ctx = "" \/ Head(rows).context = ctx
       THEN <<Head(rows)>> \o FilterContext(Tail(rows), ctx)
       ELSE FilterContext(Tail(rows), ctx)

\* Storage.SearchDocChunks: all rows of the context
SearchDocChunks(rows, ctx) == FilterContext(rows, ctx)

\* Storage.ListDocuments: the first limit rows of the context (SQLite: a
\* negative LIMIT is no limit)
ListDocuments(rows, ctx, limit) ==
  LET all == FilterContext(rows, ctx)
  IN IF limit < 0 \/ limit >= Len(all) THEN all ELSE SubSeq(all, 1, limit)

RECURSIVE Score_break(_, _)
Score_break(docs, q) ==
  IF docs = <<>> THEN <<>>
  ELSE LET doc == Head(docs)
           rest == Score_break(Tail(docs), q)
           sim == cosineSimilarity(q, doc.emb)
       IN IF Len(doc.emb) = 0 THEN <<>>
          ELSE IF sim.err THEN <<>>
          ELSE <<[doc |-> doc, score |-> [num |-> sim.num, den2 |-> sim.den2]]>> \o rest

RECURSIVE Score(_, _)
\* Search, lines 216-229: the loop over docs; a document with an empty
\* embedding or one of another length than the query's is skipped
Score(docs, q) ==
  IF docs = <<>> THEN <<>>
  ELSE LET doc == Head(docs)
           rest == Score(Tail(docs), q)
           sim == cosineSimilarity(q, doc.emb)
       IN IF Len(doc.emb) = 0 THEN rest
          ELSE IF sim.err THEN rest
          ELSE <<[doc |-> doc, score |-> [num |-> sim.num, den2 |-> sim.den2]]>> \o rest

Less_ascending(a, b) == ScoreGT(b.score, a.score)
\* the less function given to sort.Slice, line 233
Less(a, b) == ScoreGT(a.score, b.score)

\* results is ordered as sort.Slice leaves it: no element is less than one
\* before it
SortedDesc(results) ==
  \A i, j \in 1..Len(results) : i < j => ~Less(results[j], results[i])

\* sort.Slice, lines 232-234: some permutation of results that is ordered by
\* the less function; the order among equal scores is not specified
Sorts(results) ==
  LET n == Len(results)
      perms == {f \in [1..n -> 1..n] : \A i, j \in 1..n : i # j => f[i] # f[j]}
  IN {s \in {[i \in 1..n |-> results[f[i]]] : f \in perms} : SortedDesc(s)}

TopN_offByOne(results, n) ==
  IF Len(results) > n + 1 THEN SubSeq(results, 1, n + 1) ELSE results
\* Search, lines 237-241
TopN(results, n) == IF Len(results) > n THEN SubSeq(results, 1, n) ELSE results

NoDocuments_never(docs) == FALSE
\* Search, line 210 (line 69): the store returned no document
NoDocuments(docs) == Len(docs) = 0

\* the tail of both Search variants: score, sort, cut (lines 210-241, 69-100)
Rank(docs, variant) ==
  /\ searchPc' = "done"
  /\ searchVariant' = variant
  /\ IF NoDocuments(docs)
     THEN /\ searchErr' = "no documents"
          /\ searchOut' = <<>>
     ELSE /\ searchErr' = ""
          /\ \E sorted \in Sorts(Score(docs, query)) :
               searchOut' = TopN(sorted, numResults)
  /\ UNCHANGED <<store, query, numResults, searchCtx, held, cfgVars, crawlVars,
                 limVars,
                 cosVars, dbVars, pageVars>>

\* API.Search(query string, numResults, context), lines 199-242
SearchQuery ==
  /\ searchPc = "ready"
  /\ Rank(SearchDocChunks(store, searchCtx), "query")

\* API.Search(queryEmbedding, numResults, context), lines 63-101
SearchEmbedding ==
  /\ searchPc = "ready"
  /\ Rank(ListDocuments(store, searchCtx, numResults), "embedding")

\* either Search: the embedding service or the store fails (lines 200-208, 64-67)
SearchCollaboratorFails ==
  /\ searchPc = "ready"
  /\ searchPc' = "done"
  /\ \E v \in {"query", "embedding"} : searchVariant' = v
  /\ searchErr' = "collaborator"
  /\ searchOut' = <<>>
  /\ UNCHANGED <<store, query, numResults, searchCtx, held, cfgVars, crawlVars,
                 limVars,
                 cosVars, dbVars, pageVars>>

\* Search (single result), line 767: maxSimilarity := -1.0, with no document
NoBest == [doc |-> <<>>, score |-> [num |-> -1, den2 |-> 1]]

RECURSIVE BestOf(_, _, _)
\* Search (single result), lines 769-786: the loop over the documents; best
\* holds bestDoc (as a sequence, empty for nil) and maxSimilarity
BestOf(docs, q, best) ==
  IF docs = <<>> THEN best
  ELSE LET doc == Head(docs)
           sim == cosineSimilarity(q, doc.emb)
           similarity == [num |-> sim.num, den2 |-> sim.den2]
       IN IF Len(doc.emb) = 0 THEN BestOf(Tail(docs), q, best)
          ELSE IF sim.err THEN BestOf(Tail(docs), q, best)
          ELSE IF ScoreGT(similarity, best.score)
               THEN BestOf(Tail(docs), q, [doc |-> <<doc>>, score |-> similarity])
               ELSE BestOf(Tail(docs), q, best)

\* API.Search(queryEmbedding) with a single result, lines 757-794, over all
\* stored documents (ListDocuments without arguments)
SearchBest ==
  /\ searchPc = "ready"
  /\ searchPc' = "done"
  /\ searchVariant' = "best"
  /\ LET docs == store
         best == BestOf(docs, query, NoBest)
     IN IF NoDocuments(docs)
        THEN /\ searchErr' = "no documents"
             /\ searchOut' = <<>>
        ELSE IF best.doc = <<>>
        THEN /\ searchErr' = "could not find a suitable document"
             /\ searchOut' = <<>>
        ELSE /\ searchErr' = ""
             /\ searchOut' = <<[doc |-> best.doc[1], score |-> best.score]>>
  /\ UNCHANGED <<store, query, numResults, searchCtx, held, cfgVars, crawlVars,
                 limVars,
                 cosVars, dbVars, pageVars>>

\* Search (single result), lines 759-762: the store fails
SearchBestFails ==
  /\ searchPc = "ready"
  /\ searchPc' = "done"
  /\ searchVariant' = "best"
  /\ searchErr' = "collaborator"
  /\ searchOut' = <<>>
  /\ UNCHANGED <<store, query, numResults, searchCtx, held, cfgVars, crawlVars,
                 limVars,
                 cosVars, dbVars, pageVars>>

(***************************************************************************)
(* The arithmetic of cosineSimilarity.                                     *)
(* A float64 is modelled as a binary floating-point number with SigBits    *)
(* bits of significand and rounding to nearest, ties to even.  A finite    *)
(* nonzero value is s * m * 2^e with 2^(SigBits-1) <= m < 2^SigBits; the   *)
(* exponent is not bounded, the components being small integers, far from  *)
(* overflow and underflow.                                                 *)
(***************************************************************************)
RECURSIVE Pow2(_)
Pow2(n) == IF n = 0 THEN 1 ELSE 2 * Pow2(n - 1)

RECURSIVE BitLen(_)
\* the number of binary digits of n
BitLen(n) == IF n = 0 THEN 0 ELSE 1 + BitLen(n \div 2)

NaN == [nan |-> TRUE, s |-> 1, m |-> 0, e |-> 0]
Zero == [nan |-> FALSE, s |-> 1, m |-> 0, e |-> 0]

\* the float nearest to s * n * 2^e, for n > 0; sticky says that the exact
\* value lies above n * 2^e (by less than one unit of n)
RoundTo(s, n, e, sticky) ==
  LET len == BitLen(n)
  IN IF len <= SigBits
     THEN [nan |-> FALSE, s |-> s, m |-> n * Pow2(SigBits - len),
           e |-> e - (SigBits - len)]
     ELSE LET d == len - SigBits
              q == n \div Pow2(d)
              r == n % Pow2(d)
              half == Pow2(d - 1)
              up == r > half \/ (r = half /\ (sticky \/ q % 2 = 1))
              q1 == IF up THEN q + 1 ELSE q
          IN IF q1 = Pow2(SigBits)
             THEN [nan |-> FALSE, s |-> s, m |-> Pow2(SigBits - 1), e |-> e + d + 1]
             ELSE [nan |-> FALSE, s |-> s, m |-> q1, e |-> e + d]

\* the float64 of an integer
Float(n) ==
  IF n = 0 THEN Zero
  ELSE IF n < 0 THEN RoundTo(-1, -n, 0, FALSE)
  ELSE RoundTo(1, n, 0, FALSE)

RECURSIVE ISqrtBits(_, _, _)
\* the largest r with r * r <= n, found bit by bit from bit down
ISqrtBits(n, bit, acc) ==
  IF bit = 0 THEN acc
  ELSE LET t == acc + bit
       IN ISqrtBits(n, bit \div 2, IF t * t <= n THEN t ELSE acc)

ISqrt(n) == ISqrtBits(n, Pow2(BitLen(n) \div 2), 0)

\* math.Sqrt of a float that is not negative: the correctly rounded root
Sqrt(x) ==
  IF x.nan THEN NaN
  ELSE IF x.m = 0 THEN Zero
  ELSE LET odd == x.e % 2 # 0
           m2 == IF odd THEN 2 * x.m ELSE x.m
           e2 == IF odd THEN x.e - 1 ELSE x.e
           k == SigBits \div 2 + 1
           n == m2 * Pow2(2 * k)
           r == ISqrt(n)
       IN RoundTo(1, r, e2 \div 2 - k, r * r # n)

\* x * y in float64
Mul(x, y) ==
  IF x.nan \/ y.nan THEN NaN
  ELSE IF x.m = 0 \/ y.m = 0 THEN Zero
  ELSE RoundTo(x.s * y.s, x.m * y.m, x.e + y.e, FALSE)

\* x / y in float64; of the divisions by zero only 0 / 0 arises here
Div(x, y) ==
  IF x.nan \/ y.nan \/ y.m = 0 THEN NaN
  ELSE IF x.m = 0 THEN Zero
  ELSE LET n == x.m * Pow2(SigBits + 2)
       IN RoundTo(x.s * y.s, n \div y.m, x.e - y.e - (SigBits + 2), n % y.m # 0)

ZeroMagnitude_both(aMagnitude, bMagnitude) == aMagnitude.m = 0 /\ bMagnitude.m = 0
\* cosineSimilarity, line 259
ZeroMagnitude(aMagnitude, bMagnitude) == aMagnitude.m = 0 \/ bMagnitude.m = 0

Denominator_aOnly(aMagnitude, bMagnitude) == Mul(Sqrt(aMagnitude), Sqrt(aMagnitude))
Denominator_noSqrt(aMagnitude, bMagnitude) == Mul(aMagnitude, bMagnitude)
\* cosineSimilarity, line 263: math.Sqrt(aMagnitude) * math.Sqrt(bMagnitude)
Denominator(aMagnitude, bMagnitude) == Mul(Sqrt(aMagnitude), Sqrt(bMagnitude))

\* cosineSimilarity, lines 247-264, with the value it returns as a float64.
\* The three sums of the loop are sums of products of small integers, which
\* float32 and float64 hold exactly; Float rounds them if they ever are not.
cosineSimilarityFloat(a, b) ==
  IF Len(a) # Len(b) THEN [err |-> TRUE, val |-> Zero]
  ELSE LET dotProduct == Float(SumProd(a, b, Len(a)))
           aMagnitude == Float(SumProd(a, a, Len(a)))
           bMagnitude == Float(SumProd(b, b, Len(a)))
       IN IF ZeroMagnitude(aMagnitude, bMagnitude)
          THEN [err |-> FALSE, val |-> Zero]
          ELSE [err |-> FALSE,
                val |-> Div(dotProduct, Denominator(aMagnitude, bMagnitude))]

\* the vectors given to cosineSimilarity: integer components, length 0 to 2
IntVecs == UNION {[1..n -> -MaxComp..MaxComp] : n \in 0..2}

Arg1(call) == IF call = "ba" THEN vecB ELSE vecA
Arg2(call) == IF call = "ab" THEN vecB ELSE vecA

\* one call of cosineSimilarity: (a, b), (b, a) or (a, a)
Cosine(call) ==
  /\ call \notin cosDone
  /\ cosDone' = cosDone \cup {call}
  /\ cosOut' = [cosOut EXCEPT ![call] = cosineSimilarityFloat(Arg1(call), Arg2(call))]
  /\ UNCHANGED <<vecA, vecB, held, cfgVars, crawlVars, limVars, searchVars, dbVars, pageVars>>

CosineAB == Cosine("ab")
CosineBA == Cosine("ba")
CosineAA == Cosine("aa")


(***************************************************************************)
(* The table documents and the operations of package storage.              *)
(* A URL is a sequence of characters.  A row holds the eight columns; its  *)
(* rows are kept in rowid order, the order in which the SELECT statements  *)
(* of the package, none of which has an ORDER BY, scan the table.          *)
(***************************************************************************)
Urls == {<<"a", "b">>, <<"a", "_">>, <<"B">>}
Prefixes == {<<>>, <<"a">>, <<"a", "_">>, <<"%">>, <<"b">>}
Contexts == {"a", "b"}
CtxArgs == {""} \cup Contexts

\* a Document (lines 14-23)
NewDocument(url, version, ctx) ==
  [url |-> url,
   title |-> <<"title", version>>,
   description |-> <<"description", version>>,
   content |-> <<"content", version>>,
   checksum |-> <<"checksum", version>>,
   emb |-> IF version = 1 THEN <<10, 0>> ELSE <<7, 7>>,
   context |-> ctx,
   sourceType |-> IF version = 1 THEN "web_scrape" ELSE "file_read"]

\* the documents upserted: for each URL two that differ in every other field
Documents ==
  {NewDocument(u, 1, "a") : u \in Urls} \cup {NewDocument(u, 2, "b") : u \in Urls}

\* json.Marshal of the embeddings: the text of a JSON array, kept as its
\* items; Go writes a float32 with the digits that read back as the same
\* float32
Marshal(emb) == [json |-> "array", items |-> emb]
\* json.Unmarshal into a []float32
Unmarshal(blob) == blob.items

\* the row UpsertDocument binds to its statement (lines 85-99)
Row(doc) ==
  [url |-> doc.url, title |-> doc.title, description |-> doc.description,
   content |-> doc.content, checksum |-> doc.checksum,
   embeddings |-> Marshal(doc.emb), context |-> doc.context,
   source_type |-> doc.sourceType]

\* rows.Scan and json.Unmarshal of one row (lines 153-168)
ScanRow(row) ==
  [url |-> row.url, title |-> row.title, description |-> row.description,
   content |-> row.content, checksum |-> row.checksum,
   emb |-> Unmarshal(row.embeddings), context |-> row.context,
   sourceType |-> row.source_type]

\* the loop over rows.Next() (lines 193-206)
Scan(rows) == [i \in 1..Len(rows) |-> ScanRow(rows[i])]

\* SQLite folds the case of ASCII letters when LIKE compares characters
Lower(c) == IF c = "A" THEN "a" ELSE IF c = "B" THEN "b" ELSE c

RECURSIVE Like(_, _)
\* str LIKE pattern in SQLite: % stands for any run of characters, _ for any
\* one character, a letter for itself in either case
Like(pattern, str) ==
  IF pattern = <<>> THEN str = <<>>
  ELSE IF Head(pattern) = "%"
       THEN Like(Tail(pattern), str) \/ (str # <<>> /\ Like(pattern, Tail(str)))
  ELSE IF str = <<>> THEN FALSE
  ELSE /\ Head(pattern) = "_" \/ Lower(Head(pattern)) = Lower(Head(str))
       /\ Like(Tail(pattern), Tail(str))

UpsertRows_ignore(rows, doc) ==
  IF \E i \in 1..Len(rows) : rows[i].url = doc.url THEN rows
  ELSE Append(rows, Row(doc))
\* INSERT OR REPLACE (lines 90-93) on the primary key url: the row of the
\* same URL is deleted and the new row gets the next rowid
UpsertRows(rows, doc) ==
  LET Other(r) == r.url # doc.url
  IN Append(SelectSeq(rows, Other), Row(doc))

\* DELETE FROM documents WHERE url LIKE ? || '%' [AND context = ?]
\* (lines 110-116)
DeleteRows(rows, prefix, ctx) ==
  LET Kept(r) == ~(/\ Like(Append(prefix, "%"), r.url)
                   /\ ctx = "" \/ r.context = ctx)
  IN SelectSeq(rows, Kept)

\* Storage.ListAllDocuments, lines 215-254: every row, or every row of the
\* context, scanned
ListAllDocuments(rows, ctx) == Scan(FilterContext(rows, ctx))

NotFound == [found |-> FALSE]

\* SELECT ... WHERE url = ? [AND context = ?], QueryRow and Scan
\* (lines 143-168)
SelectDocument(rows, url, ctx) ==
  LET Match(r) == r.url = url /\ (ctx = "" \/ r.context = ctx)
      hits == SelectSeq(rows, Match)
  IN IF hits = <<>> THEN NotFound
     ELSE [found |-> TRUE, doc |-> ScanRow(hits[1])]

\* the record of an operation
Op(op, args, before, res, err) ==
  [op |-> op, args |-> args, before |-> before, result |-> res, err |-> err]

NoOp == Op("none", <<>>, <<>>, <<>>, FALSE)

\* the URLs of rows
UrlsOf(rows) == {rows[i].url : i \in 1..Len(rows)}

\* the embedding of the query of a Search on the table
StoreQuery == <<10, 0>>

\* Storage.UpsertDocument, lines 83-104
UpsertDocument ==
  \E doc \in Documents :
     /\ table' = UpsertRows(table, doc)
     /\ lastUpsert' = [u \in DOMAIN lastUpsert \cup {doc.url} |->
                         IF u = doc.url THEN doc ELSE lastUpsert[u]]
     /\ lastOp' = Op("upsert", [doc |-> doc], <<>>, <<>>, FALSE)
     /\ UNCHANGED <<held, cfgVars, crawlVars, limVars, searchVars, cosVars, pageVars>>

\* Storage.DeleteDocumentsByPrefix, lines 109-129
DeleteDocumentsByPrefix ==
  \E prefix \in Prefixes, ctx \in CtxArgs :
     /\ table' = DeleteRows(table, prefix, ctx)
     /\ lastUpsert' = [u \in DOMAIN lastUpsert \cap UrlsOf(table') |-> lastUpsert[u]]
     /\ lastOp' = Op("delete", [prefix |-> prefix, ctx |-> ctx], table, <<>>, FALSE)
     /\ UNCHANGED <<held, cfgVars, crawlVars, limVars, searchVars, cosVars, pageVars>>

\* Storage.Clean, lines 132-138
Clean ==
  /\ table' = <<>>
  /\ lastUpsert' = <<>>
  /\ lastOp' = Op("clean", <<>>, <<>>, <<>>, FALSE)
  /\ UNCHANGED <<held, cfgVars, crawlVars, limVars, searchVars, cosVars, pageVars>>

\* Storage.GetDocument, lines 141-169
GetDocument ==
  \E url \in Urls, ctx \in CtxArgs :
     /\ lastOp' = Op("get", [url |-> url, ctx |-> ctx], <<>>,
                     SelectDocument(table, url, ctx),
                     ~SelectDocument(table, url, ctx).found)
     /\ UNCHANGED <<table, lastUpsert, held, cfgVars, crawlVars, limVars,
                    searchVars, cosVars, pageVars>>

\* Storage.ListDocuments, lines 172-213
ListDocumentsCall ==
  \E ctx \in CtxArgs, limit \in 0..MaxK :
     /\ lastOp' = Op("list", [ctx |-> ctx, limit |-> limit], <<>>,
                     ListDocuments(Scan(table), ctx, limit), FALSE)
     /\ UNCHANGED <<table, lastUpsert, held, cfgVars, crawlVars, limVars,
                    searchVars, cosVars, pageVars>>

\* API.ListDocuments, lines 271-277: a limit that is not positive becomes the
\* default
DefaultLimit == 10
APIListDocuments(rows, ctx, limit) ==
  ListDocuments(rows, ctx, IF limit <= 0 THEN DefaultLimit ELSE limit)

\* docs[start:end] panics unless 0 <= start <= end <= cap(docs)
SliceInRange(start, end, docs) == 0 <= start /\ start <= end /\ end <= Len(docs)

\* the handler of the tool list_documents, core.go lines 397-413: the result
\* it marshals, or the panic of the slice expression
ListDocumentsTool(rows, ctx, offset, limit) ==
  LET docs == APIListDocuments(rows, ctx, limit)
      start == offset
      end == IF start + limit > Len(docs) THEN Len(docs) ELSE start + limit
  IN IF SliceInRange(start, end, docs)
     THEN [panic |-> FALSE, documents |-> SubSeq(docs, start + 1, end),
           total |-> Len(docs)]
     ELSE [panic |-> TRUE, documents |-> <<>>, total |-> 0]

\* a call of the tool list_documents
ListDocumentsToolCall ==
  \E ctx \in CtxArgs, offset \in 0..MaxK, limit \in -1..MaxK :
     LET res == ListDocumentsTool(Scan(table), ctx, offset, limit)
     IN /\ lastOp' = Op("list_documents",
                        [ctx |-> ctx, offset |-> offset, limit |-> limit], <<>>,
                        res, res.panic)
        /\ UNCHANGED <<table, lastUpsert, held, cfgVars, crawlVars, limVars,
                       searchVars, cosVars, pageVars>>

\* Storage.SearchDocChunks, lines 257-300
SearchDocChunksCall ==
  \E ctx \in CtxArgs :
     /\ lastOp' = Op("chunks", [ctx |-> ctx], <<>>,
                     SearchDocChunks(Scan(table), ctx), FALSE)
     /\ UNCHANGED <<table, lastUpsert, held, cfgVars, crawlVars, limVars,
                    searchVars, cosVars, pageVars>>

\* either API.Search on the table (lines 199-242, 63-101)
SearchCall ==
  \E ctx \in CtxArgs, n \in 0..MaxK, variant \in {"query", "embedding"} :
     LET docs == IF variant = "query" THEN SearchDocChunks(Scan(table), ctx)
                 ELSE ListDocuments(Scan(table), ctx, n)
         args == [ctx |-> ctx, limit |-> n, variant |-> variant]
     IN /\ IF NoDocuments(docs)
           THEN lastOp' = Op("search", args, <<>>, <<>>, TRUE)
           ELSE \E sorted \in Sorts(Score(docs, StoreQuery)) :
                   lastOp' = Op("search", args, <<>>, TopN(sorted, n), FALSE)
        /\ UNCHANGED <<table, lastUpsert, held, cfgVars, crawlVars, limVars,
                       searchVars, cosVars, pageVars>>

\* any of the operations: the database reports an error (a failed Prepare,
\* Exec, Query or Scan), the operation returns it and the table is as before
StatementFails ==
  /\ lastOp' = Op("failed", <<>>, <<>>, <<>>, TRUE)
  /\ UNCHANGED <<table, lastUpsert, held, cfgVars, crawlVars, limVars,
                 searchVars, cosVars, pageVars>>


(***************************************************************************)
(* The page of a Scraper: GetContent, GetMetadata and ScrapeContent.       *)
(* A node of a parsed document is a record of its type, its data (the tag  *)
(* of an element, the text of a text node), its attributes and its         *)
(* children.  A string that the code builds by concatenation is kept as    *)
(* the sequence of the pieces it was built from.                           *)
(***************************************************************************)
Node(type, data, attr, kids) == [type |-> type, data |-> data, attr |-> attr, kids |-> kids]
\* a nil *html.Node
NilNode == Node("nil", "", <<>>, <<>>)
Text(data) == Node("text", data, <<>>, <<>>)
Elem(tag, attr, kids) == Node("element", tag, attr, kids)
Attr(key, val) == [Key |-> key, Val |-> val]

\* the least number of a set of numbers
First(S) == CHOOSE i \in S : \A j \in S : i <= j

\* extractTitle, line 334: the data of the element's first child
TitleText(n) == n.kids[1].data

\* extractTitle: a <title> element with a child gives the data of its first
\* child; otherwise the first child with a result other than "" gives it
RECURSIVE extractTitle(_)
extractTitle(n) ==
  IF n.type = "element" /\ n.data = "title" /\ n.kids # <<>>
  THEN TitleText(n)
  ELSE LET found == {i \in 1..Len(n.kids) : extractTitle(n.kids[i]) # ""}
       IN IF found = {} THEN "" ELSE extractTitle(n.kids[First(found)])

IsDesc_anyName(attr) == \E i \in 1..Len(attr) : attr[i].Key = "name"
\* extractDescription, lines 353-355
IsDesc(attr) ==
  \E i \in 1..Len(attr) : attr[i].Key = "name" /\ attr[i].Val = "description"

\* extractDescription, lines 356-359: the value of the last content attribute
ContentAttrs(attr) == {i \in 1..Len(attr) : attr[i].Key = "content"}
ContentOf(attr) == attr[CHOOSE i \in ContentAttrs(attr) : \A j \in ContentAttrs(attr) : j <= i].Val

\* extractDescription: a <meta> element with name="description" and a content
\* attribute gives the content; otherwise the first child with a result other
\* than "" gives it
RECURSIVE extractDescription(_)
extractDescription(n) ==
  IF /\ n.type = "element"
     /\ n.data = "meta"
     /\ IsDesc(n.attr)
     /\ ContentAttrs(n.attr) # {}
  THEN ContentOf(n.attr)
  ELSE LET found == {i \in 1..Len(n.kids) : extractDescription(n.kids[i]) # ""}
       IN IF found = {} THEN "" ELSE extractDescription(n.kids[First(found)])

IsMainContent_tagOnly(n) == n.type = "element" /\ n.data \in {"main", "article"}
\* findMainContentNode, lines 621-631: an element that is <main> or <article>
\* or has id "content" or "main"
IsMainContent(n) ==
  /\ n.type = "element"
  /\ \/ n.data \in {"main", "article"}
     \/ \E i \in 1..Len(n.attr) :
          n.attr[i].Key = "id" /\ n.attr[i].Val \in {"content", "main"}

\* findMainContentNode, lines 620-640: the closure f, the first node in
\* pre-order that IsMainContent
RECURSIVE findMain(_)
findMain(n) ==
  IF IsMainContent(n) THEN n
  ELSE LET found == {i \in 1..Len(n.kids) : findMain(n.kids[i]) # NilNode}
       IN IF found = {} THEN NilNode ELSE findMain(n.kids[First(found)])

\* findMainContentNode, lines 646-657: the closure findBody
RECURSIVE findBody(_)
findBody(n) ==
  IF n.type = "element" /\ n.data = "body" THEN n
  ELSE LET found == {i \in 1..Len(n.kids) : findBody(n.kids[i]) # NilNode}
       IN IF found = {} THEN NilNode ELSE findBody(n.kids[First(found)])

\* findMainContentNode, line 643
NoMain(mainNode) == mainNode = NilNode

\* findMainContentNode, lines 616-663
findMainContentNode(doc) ==
  LET mainNode == findMain(doc)
  IN IF NoMain(mainNode) THEN findBody(doc) ELSE mainNode

Skipped_scriptOnly(n) == n.type = "element" /\ n.data = "script"
\* extractText, line 682
Skipped(n) == n.type = "element" /\ n.data \in {"script", "style"}

\* extractText, lines 675-691: the text of a text node; nothing for nil,
\* <script> and <style>; otherwise the results of the children, each followed
\* by a space
RECURSIVE extractText(_)
RECURSIVE extractTextOfKids(_)
extractText(n) ==
  IF n = NilNode THEN <<>>
  ELSE IF n.type = "text" THEN <<n.data>>
  ELSE IF Skipped(n) THEN <<>>
  ELSE extractTextOfKids(n.kids)

extractTextOfKids(kids) ==
  IF kids = <<>> THEN <<>>
  ELSE extractText(Head(kids)) \o <<" ">> \o extractTextOfKids(Tail(kids))

\* what <head> may hold
HeadItems ==
  { Elem("title", <<>>, <<Text("T")>>),
    Elem("title", <<>>, <<Text("U")>>),
    Elem("title", <<>>, <<>>),
    Elem("meta", <<Attr("name", "description"), Attr("content", "D")>>, <<>>),
    Elem("meta", <<Attr("content", "E"), Attr("name", "description")>>, <<>>),
    Elem("meta", <<Attr("name", "description"), Attr("content", "")>>, <<>>),
    Elem("meta", <<Attr("name", "description")>>, <<>>),
    Elem("meta", <<Attr("name", "keywords"), Attr("content", "K")>>, <<>>) }

\* what <body> may hold
BodyItems ==
  { Elem("main", <<>>, <<Text("Hello"), Elem("script", <<>>, <<Text("ignored")>>)>>),
    Elem("article", <<>>, <<Text("A")>>),
    Elem("div", <<Attr("id", "content")>>,
         <<Text("C"), Elem("style", <<>>, <<Text("css")>>)>>),
    Elem("div", <<Attr("id", "main")>>, <<Elem("main", <<>>, <<Text("N")>>)>>),
    Elem("div", <<Attr("class", "content")>>, <<Text("P")>>),
    Text("B") }

\* html.Parse gives every document an <html> element with a <head> and a
\* <body>, or with a <head> and a <frameset> for a frameset document
Page(head, body) ==
  Node("document", "", <<>>,
       <<Elem("html", <<>>, <<Elem("head", <<>>, head), Elem("body", <<>>, body)>>)>>)
FramesetPage ==
  Node("document", "", <<>>,
       <<Elem("html", <<>>,
              <<Elem("head", <<>>, <<Elem("title", <<>>, <<Text("T")>>)>>),
                Elem("frameset", <<>>, <<Elem("frame", <<>>, <<>>)>>)>>)>>)

\* the documents the server may hold at s.URL
Pages ==
  {Page(h, <<>>) : h \in SeqsUpTo(HeadItems, MaxKids)}
  \cup {Page(<<>>, b) : b \in SeqsUpTo(BodyItems, MaxKids)}
  \cup {FramesetPage}

NoMetadata == [Title |-> "", Description |-> ""]

\* the last method call: its name, whether it returned an error, and for
\* ScrapeContent the main content node it found and the text it returned
PageOp(op, err, main, text) == [op |-> op, err |-> err, main |-> main, text |-> text]

\* GetContent, lines 316-324, fetchURL succeeding
GetContentOk ==
  /\ Content' = page
  /\ contentFetched' = TRUE
  /\ pageOp' = PageOp("GetContent", FALSE, NilNode, <<>>)
  /\ UNCHANGED <<page, Metadata, held, cfgVars, crawlVars, limVars, searchVars,
                 cosVars, dbVars>>

\* GetContent, lines 317-320, fetchURL failing
GetContentFail ==
  /\ pageOp' = PageOp("GetContent", TRUE, NilNode, <<>>)
  /\ UNCHANGED <<page, Content, contentFetched, Metadata, held, cfgVars, crawlVars,
                 limVars, searchVars, cosVars, dbVars>>

ContentMissing_never(content) == FALSE
\* GetMetadata, line 384
ContentMissing(content) == content = NilNode

\* GetMetadata, lines 383-397
GetMetadata ==
  /\ IF ContentMissing(Content)
     THEN /\ pageOp' = PageOp("GetMetadata", TRUE, NilNode, <<>>)
          /\ Metadata' = Metadata
     ELSE /\ pageOp' = PageOp("GetMetadata", FALSE, NilNode, <<>>)
          /\ Metadata' = [Title |-> extractTitle(Content),
                          Description |-> extractDescription(Content)]
  /\ UNCHANGED <<page, Content, contentFetched, held, cfgVars, crawlVars, limVars,
                 searchVars, cosVars, dbVars>>

\* ScrapeContent, lines 589-604, GetContent succeeding
ScrapeContentOk ==
  /\ Content' = page
  /\ contentFetched' = TRUE
  /\ LET mainNode == findMainContentNode(page)
     IN pageOp' = IF mainNode = NilNode
                  THEN PageOp("ScrapeContent", TRUE, NilNode, <<>>)
                  ELSE PageOp("ScrapeContent", FALSE, mainNode, extractText(mainNode))
  /\ UNCHANGED <<page, Metadata, held, cfgVars, crawlVars, limVars, searchVars,
                 cosVars, dbVars>>

\* ScrapeContent, lines 591-594, GetContent failing
ScrapeContentFail ==
  /\ pageOp' = PageOp("ScrapeContentFetch", TRUE, NilNode, <<>>)
  /\ UNCHANGED <<page, Content, contentFetched, Metadata, held, cfgVars, crawlVars,
                 limVars, searchVars, cosVars, dbVars>>


(***************************************************************************)
(* Initial states and specifications.                                      *)
(***************************************************************************)
vars == <<cfgVars, crawlVars, held, limVars, searchVars, cosVars, dbVars, pageVars>>

(***************************************************************************)
(* extractLinks on a parsed document.  The value of an href attribute is   *)
(* an href record; the crawl keeps of a document the href values of its    *)
(* anchors in document order, which is what extractLinks reads of it.      *)
(***************************************************************************)
\* the values of the href attributes among attrs, in their order
RECURSIVE HrefVals(_)
HrefVals(attrs) ==
  IF attrs = <<>> THEN <<>>
  ELSE IF Head(attrs).Key = "href" THEN <<Head(attrs).Val>> \o HrefVals(Tail(attrs))
  ELSE HrefVals(Tail(attrs))

IsAnchor_anyElement(n) == n.type = "element"
\* extractLinks, line 497
IsAnchor(n) == n.type = "element" /\ n.data = "a"

\* extractLinks, lines 496-523: the closure extract appends the links of the
\* node's own href attributes, then those of its children from first to last
RECURSIVE extract(_, _, _)
RECURSIVE extractOfKids(_, _, _)
extract(n, baseURL, vis) ==
  (IF IsAnchor(n) THEN extractLinks(HrefVals(n.attr), baseURL, vis) ELSE <<>>)
    \o extractOfKids(n.kids, baseURL, vis)

extractOfKids(kids, baseURL, vis) ==
  IF kids = <<>> THEN <<>>
  ELSE extract(Head(kids), baseURL, vis) \o extractOfKids(Tail(kids), baseURL, vis)

Anchor(href, kids) == Elem("a", <<Attr("href", href)>>, kids)

\* what the <body> of a page with links may hold
LinkItems ==
  { Anchor(Abs("ex.com", "/a"), <<Text("A")>>),
    Anchor(Rel("/b"), <<>>),
    Anchor(Abs("other.com", "/b"), <<>>),
    Anchor(BadHref, <<>>),
    Elem("a", <<Attr("class", "x"), Attr("href", Rel("/b")), Attr("href", BadHref)>>, <<>>),
    Elem("a", <<Attr("name", "top")>>, <<>>),
    Elem("link", <<Attr("href", Abs("ex.com", "/a"))>>, <<>>),
    Elem("div", <<>>, <<Anchor(Abs("ex.com", "/a"), <<>>), Anchor(BadHref, <<>>)>>),
    Anchor(BadHref, <<Elem("span", <<>>, <<Anchor(AbsQ("ex.com", "/a", "p=2"), <<>>)>>)>>) }

\* the documents extractLinks is called with
LinkPages == {Page(<<>>, b) : b \in SeqsUpTo(LinkItems, MaxKids)}

\* the base URLs extractLinks is called with
LinkBases == {SeedURL, PageX}

\* the visited sets extractLinks is called with
LinkVisited == SUBSET {String(PageA), String(PageB), String(PageX)}

\* extractLinks(doc, baseURL, visited), lines 491-526
ExtractLinks ==
  /\ pageOp.op = "none"
  /\ \E baseURL \in LinkBases :
       pageOp' = [op |-> "extractLinks", baseURL |-> baseURL,
                  links |-> extract(page, baseURL, visited)]
  /\ UNCHANGED <<page, Content, Metadata, contentFetched, held, cfgVars, crawlVars,
                 limVars, searchVars, cosVars, dbVars>>

(***************************************************************************)
(* One goroutine calling GetContent and then GetAllPaths on one Scraper:   *)
(* every fetchURL call of the two methods passes the limiter as caller     *)
(* Main.                                                                   *)
(***************************************************************************)
Main == 1

\* the documents the server returns to the crawl
ChainDocs == {<<>>, <<Abs("ex.com", "/a")>>, <<Abs("ex.com", "/a"), Abs("ex.com", "/a")>>}

\* fetchURL, lines 437-443, called with urlStr; the URL parses
Called(u) ==
  /\ pc[Main] = "idle"
  /\ pc' = [pc EXCEPT ![Main] = "sem"]
  /\ callHost' = [callHost EXCEPT ![Main] = u.host]
  /\ nCalls' = nCalls + 1
  /\ fetchLog' = Append(fetchLog, String(u))

\* fetchURL, lines 447-487: the request ends with outcome o and the deferred
\* function of line 444 takes the slot back
Returned(o) ==
  /\ pc[Main] = "request"
  /\ held' = held - Releases(o)
  /\ slots' = [slots EXCEPT ![Main] = @ - Releases(o)]
  /\ lastOutcome' = o
  /\ pc' = [pc EXCEPT ![Main] = "idle"]
  /\ callHost' = [callHost EXCEPT ![Main] = "ex.com"]

\* GetContent, line 317: fetchURL(s.URL)
ChainGetContentCall ==
  /\ result = "idle"
  /\ nCalls = 0
  /\ Called(SeedURL)
  /\ UNCHANGED <<cfgRequestDelay, now, wake, slots, lastOutcome, mutex, lastRequestTime,
                 lastGap, held, cfgVars, seedOK, result, stack, calls, visited, paths,
                 SubPaths, SubPathsHTMLContent, errLog, atCall, searchVars,
                 cosVars, dbVars, pageVars>>

\* GetContent, lines 317-324: fetchURL returns, s.Content is set on success
ChainGetContentReturn ==
  /\ result = "idle"
  /\ \E o \in Outcomes :
       /\ Returned(o)
       /\ Content' = IF o = "ok" THEN page ELSE Content
       /\ contentFetched' = (contentFetched \/ o = "ok")
       /\ pageOp' = PageOp("GetContent", o # "ok", NilNode, <<>>)
  /\ UNCHANGED <<cfgRequestDelay, now, wake, nCalls, mutex, lastRequestTime, lastGap,
                 cfgVars, crawlVars, page, Metadata, searchVars, cosVars, dbVars>>

\* GetAllPaths, called after GetContent has returned
ChainGetAllPaths ==
  /\ nCalls = 1
  /\ pc[Main] = "idle"
  /\ GetAllPathsBegin

\* Crawl, line 557: fetchURL(urlStr)
ChainFetchCall ==
  /\ result = "running"
  /\ top.pc = "fetch"
  /\ Called(cur.url)
  /\ calls' = [calls EXCEPT ![top.id].fetched = TRUE]
  /\ stack' = [stack EXCEPT ![Len(stack)].pc = "fetching"]
  /\ UNCHANGED <<cfgRequestDelay, now, wake, slots, lastOutcome, mutex, lastRequestTime,
                 lastGap, held, cfgVars, seedOK, result, visited, paths,
                 SubPaths, SubPathsHTMLContent, errLog, atCall, searchVars,
                 cosVars, dbVars, pageVars>>

\* Crawl, lines 557-560: fetchURL fails, Crawl returns the error
ChainFetchFail ==
  /\ result = "running"
  /\ top.pc = "fetching"
  /\ \E o \in FetchErrors : Returned(o)
  /\ Return("failed", CrawlErr(TRUE))
  /\ UNCHANGED <<cfgRequestDelay, now, wake, nCalls, mutex, lastRequestTime, lastGap,
                 cfgVars, seedOK, atCall, visited, paths, SubPathsHTMLContent, fetchLog,
                 searchVars, cosVars, dbVars, pageVars>>

\* Crawl, lines 557-571: fetchURL returns a document
ChainFetchOk ==
  /\ result = "running"
  /\ top.pc = "fetching"
  /\ Returned("ok")
  /\ \E doc \in ChainDocs : Stored(doc)
  /\ UNCHANGED <<cfgRequestDelay, now, wake, nCalls, mutex, lastRequestTime, lastGap,
                 cfgVars, seedOK, atCall, result, visited, SubPaths, fetchLog, errLog,
                 searchVars, cosVars, dbVars, pageVars>>

\* no GetAllPaths call has begun
NoCall == [n |-> 0, SubPaths |-> {}, content |-> <<>>]

CrawlIdle ==
  /\ seedOK = TRUE
  /\ result = "idle"
  /\ stack = <<>>
  /\ calls = <<>>
  /\ visited = {}
  /\ paths = {}
  /\ SubPaths = {}
  /\ SubPathsHTMLContent = <<>>
  /\ fetchLog = <<>>
  /\ errLog = <<>>
  /\ atCall = <<>>

LimiterIdle ==
  /\ cfgRequestDelay = 1
  /\ now = 0
  /\ pc = [p \in Callers |-> "idle"]
  /\ callHost = [p \in Callers |-> "ex.com"]
  /\ wake = [p \in Callers |-> 0]
  /\ nCalls = 0
  /\ slots = [p \in Callers |-> 0]
  /\ lastOutcome = "none"
  /\ mutex = 0
  /\ lastRequestTime = <<>>
  /\ lastGap = <<>>

SearchIdle ==
  /\ store = <<>>
  /\ query = <<>>
  /\ numResults = 0
  /\ searchCtx = ""
  /\ searchPc = "ready"
  /\ searchVariant = "none"
  /\ searchOut = <<>>
  /\ searchErr = ""

CosineCalls == {"ab", "ba", "aa"}

CosineIdle ==
  /\ vecA = <<>>
  /\ vecB = <<>>
  /\ cosDone = {}
  /\ cosOut = <<>>

StoreIdle ==
  /\ table = <<>>
  /\ lastUpsert = <<>>
  /\ lastOp = <<>>

PageIdle ==
  /\ page = <<>>
  /\ Content = <<>>
  /\ Metadata = <<>>
  /\ contentFetched = FALSE
  /\ pageOp = <<>>

\* New (lines 263-280) with a configuration, before GetAllPaths
InitCrawl ==
  /\ cfgMaxDepth \in -1..MaxDepthBound
  /\ cfgMaxConcurrent \in {1, MaxConcBound}
  /\ held = 0
  /\ seedOK \in BOOLEAN
  /\ result = "idle"
  /\ stack = <<>>
  /\ calls = <<>>
  /\ visited = {}
  /\ paths = {}
  /\ SubPaths = {}
  /\ SubPathsHTMLContent = <<>>
  /\ fetchLog = <<>>
  /\ errLog = <<>>
  /\ atCall = NoCall
  /\ LimiterIdle
  /\ SearchIdle
  /\ CosineIdle
  /\ StoreIdle
  /\ PageIdle

NextCrawl ==
  \/ GetAllPathsInvalid
  \/ GetAllPathsBegin
  \/ CrawlDepthExceeded
  \/ CrawlSkipVisited
  \/ CrawlMarkVisited
  \/ CrawlFetchBegin
  \/ CrawlFetchFail
  \/ CrawlFetchOk
  \/ CrawlNextLink
  \/ CrawlDone

SpecCrawl == InitCrawl /\ [][NextCrawl]_vars

\* New (lines 263-280) with a configuration, before GetAllPaths, for the crawl
\* of the site of SiteDocs
InitSite ==
  /\ cfgMaxDepth \in 0..MaxDepthBound
  /\ cfgMaxConcurrent = 1
  /\ held = 0
  /\ seedOK \in BOOLEAN
  /\ result = "idle"
  /\ stack = <<>>
  /\ calls = <<>>
  /\ visited = {}
  /\ paths = {}
  /\ SubPaths = {}
  /\ SubPathsHTMLContent = <<>>
  /\ fetchLog = <<>>
  /\ errLog = <<>>
  /\ atCall = NoCall
  /\ LimiterIdle
  /\ SearchIdle
  /\ CosineIdle
  /\ StoreIdle
  /\ PageIdle

NextSite ==
  \/ GetAllPathsInvalid
  \/ GetAllPathsBegin
  \/ CrawlDepthExceeded
  \/ CrawlSkipVisited
  \/ CrawlMarkVisited
  \/ CrawlFetchBegin
  \/ CrawlFetchFail
  \/ SiteFetchOk
  \/ CrawlNextLink
  \/ CrawlDone

SpecSite == InitSite /\ [][NextSite]_vars

\* New (lines 263-280) with a configuration, before the first of several
\* GetAllPaths calls on the site of RepeatDocs
InitRepeat ==
  /\ cfgMaxDepth \in 0..MaxDepthBound
  /\ cfgMaxConcurrent = 1
  /\ held = 0
  /\ seedOK \in BOOLEAN
  /\ result = "idle"
  /\ stack = <<>>
  /\ calls = <<>>
  /\ visited = {}
  /\ paths = {}
  /\ SubPaths = {}
  /\ SubPathsHTMLContent = <<>>
  /\ fetchLog = <<>>
  /\ errLog = <<>>
  /\ atCall = NoCall
  /\ LimiterIdle
  /\ SearchIdle
  /\ CosineIdle
  /\ StoreIdle
  /\ PageIdle

NextRepeat ==
  \/ GetAllPathsInvalidAgain
  \/ GetAllPathsAgain
  \/ CrawlDepthExceeded
  \/ CrawlSkipVisited
  \/ CrawlMarkVisited
  \/ CrawlFetchBegin
  \/ CrawlFetchFail
  \/ RepeatFetchOk
  \/ CrawlNextLink
  \/ CrawlDone

SpecRepeat == InitRepeat /\ [][NextRepeat]_vars

\* One GetAllPaths call on the site of RepeatDocs, whose links form cycles
NextCycle ==
  \/ GetAllPathsInvalid
  \/ GetAllPathsBegin
  \/ CrawlDepthExceeded
  \/ CrawlSkipVisited
  \/ CrawlMarkVisited
  \/ CrawlFetchBegin
  \/ CrawlFetchFail
  \/ RepeatFetchOk
  \/ CrawlNextLink
  \/ CrawlDone

\* GetAllPaths runs in a goroutine that is scheduled as long as it can take a
\* step, and every HTTP request returns or times out (http.Client.Timeout)
SpecCycleFair == InitCrawl /\ [][NextCycle]_vars /\ WF_vars(NextCycle)

\* a parsed document and a visited set, before extractLinks is called
InitLinks ==
  /\ page \in LinkPages
  /\ visited \in LinkVisited
  /\ pageOp = [op |-> "none"]
  /\ Content = <<>>
  /\ Metadata = <<>>
  /\ contentFetched = FALSE
  /\ cfgMaxDepth = 0
  /\ cfgMaxConcurrent = 1
  /\ held = 0
  /\ seedOK = TRUE
  /\ result = "idle"
  /\ stack = <<>>
  /\ calls = <<>>
  /\ paths = {}
  /\ SubPaths = {}
  /\ SubPathsHTMLContent = <<>>
  /\ fetchLog = <<>>
  /\ errLog = <<>>
  /\ atCall = <<>>
  /\ LimiterIdle
  /\ SearchIdle
  /\ CosineIdle
  /\ StoreIdle

NextLinks == ExtractLinks

SpecLinks == InitLinks /\ [][NextLinks]_vars

\* New (lines 263-280) with a configuration that lets the crawl fetch the
\* seed, before GetContent is called
InitChain ==
  /\ cfgMaxDepth \in 0..1
  /\ cfgMaxConcurrent \in {1, MaxConcBound}
  /\ held = 0
  /\ cfgRequestDelay \in {1, MaxDelayBound}
  /\ now = 0
  /\ pc = [p \in Callers |-> "idle"]
  /\ callHost = [p \in Callers |-> "ex.com"]
  /\ wake = [p \in Callers |-> 0]
  /\ nCalls = 0
  /\ slots = [p \in Callers |-> 0]
  /\ lastOutcome = "none"
  /\ mutex = 0
  /\ lastRequestTime = <<>>
  /\ lastGap = <<>>
  /\ seedOK = TRUE
  /\ result = "idle"
  /\ stack = <<>>
  /\ calls = <<>>
  /\ visited = {}
  /\ paths = {}
  /\ SubPaths = {}
  /\ SubPathsHTMLContent = <<>>
  /\ fetchLog = <<>>
  /\ errLog = <<>>
  /\ atCall = NoCall
  /\ page = FramesetPage
  /\ Content = NilNode
  /\ Metadata = NoMetadata
  /\ contentFetched = FALSE
  /\ pageOp = PageOp("none", FALSE, NilNode, <<>>)
  /\ SearchIdle
  /\ CosineIdle
  /\ StoreIdle

NextChain ==
  \/ ChainGetContentCall
  \/ ChainGetContentReturn
  \/ ChainGetAllPaths
  \/ CrawlDepthExceeded
  \/ CrawlSkipVisited
  \/ CrawlMarkVisited
  \/ ChainFetchCall
  \/ ChainFetchFail
  \/ ChainFetchOk
  \/ CrawlNextLink
  \/ CrawlDone
  \/ SemAcquire(Main)
  \/ RateCheck(Main)
  \/ SleepDone(Main)
  \/ Stamp(Main)
  \/ Tick

SpecChain == InitChain /\ [][NextChain]_vars

\* New (lines 263-280) with a configuration, before any fetchURL call
InitLimiter ==
  /\ cfgMaxDepth = 0
  /\ cfgMaxConcurrent \in {1, MaxConcBound}
  /\ held = 0
  /\ cfgRequestDelay \in {1, MaxDelayBound}
  /\ now = 0
  /\ pc = [p \in Callers |-> "idle"]
  /\ callHost = [p \in Callers |-> "ex.com"]
  /\ wake = [p \in Callers |-> 0]
  /\ nCalls = 0
  /\ slots = [p \in Callers |-> 0]
  /\ lastOutcome = "none"
  /\ mutex = 0
  /\ lastRequestTime = <<>>
  /\ lastGap = <<>>
  /\ CrawlIdle
  /\ SearchIdle
  /\ CosineIdle
  /\ StoreIdle
  /\ PageIdle

NextLimiter ==
  \/ \E p \in Callers :
       \/ FetchInvalidURL(p)
       \/ FetchCall(p)
       \/ SemAcquire(p)
       \/ RateCheck(p)
       \/ SleepDone(p)
       \/ Stamp(p)
       \/ FetchReturn(p)
  \/ Tick

SpecLimiter == InitLimiter /\ [][NextLimiter]_vars

\* The callers of fetchURL with a clock that does not stop while a caller
\* sleeps.  Every goroutine that can take a step is scheduled, every request
\* returns or times out, a goroutine blocked in the send on requestSem or in
\* mutex.Lock gets its turn (the runtime queues blocked senders in order of
\* arrival and sync.Mutex hands over to a waiter that has waited long).
NextLimiterFair ==
  \/ \E p \in Callers :
       \/ FetchCall(p)
       \/ SemAcquire(p)
       \/ RateCheck(p)
       \/ SleepDone(p)
       \/ Stamp(p)
       \/ FetchReturn(p)
  \/ Elapse

SpecLimiterFair ==
  /\ InitLimiter
  /\ [][NextLimiterFair]_vars
  /\ WF_vars(Elapse)
  /\ \A p \in Callers :
       /\ SF_vars(SemAcquire(p))
       /\ SF_vars(RateCheck(p))
       /\ SF_vars(SleepDone(p))
       /\ WF_vars(Stamp(p))
       /\ WF_vars(FetchReturn(p))

\* a stored corpus and the arguments of one Search call
InitSearch ==
  /\ store \in Stores
  /\ query \in QueryVecs
  /\ numResults \in 0..MaxK
  /\ searchCtx \in {"", "a"}
  /\ searchPc = "ready"
  /\ searchVariant = "none"
  /\ searchOut = <<>>
  /\ searchErr = ""
  /\ cfgMaxDepth = 0
  /\ cfgMaxConcurrent = 1
  /\ held = 0
  /\ CrawlIdle
  /\ LimiterIdle
  /\ CosineIdle
  /\ StoreIdle
  /\ PageIdle

NextSearch ==
  \/ SearchQuery
  \/ SearchEmbedding
  \/ SearchCollaboratorFails

SpecSearch == InitSearch /\ [][NextSearch]_vars

\* a stored corpus and one call of the single-result Search
NextBest ==
  \/ SearchBest
  \/ SearchBestFails

SpecBest == InitSearch /\ [][NextBest]_vars

\* two vectors, before any call of cosineSimilarity
InitCosine ==
  /\ vecA \in IntVecs
  /\ vecB \in IntVecs
  /\ cosDone = {}
  /\ cosOut = [c \in CosineCalls |-> [err |-> FALSE, val |-> Zero]]
  /\ cfgMaxDepth = 0
  /\ cfgMaxConcurrent = 1
  /\ held = 0
  /\ CrawlIdle
  /\ LimiterIdle
  /\ SearchIdle
  /\ StoreIdle
  /\ PageIdle

NextCosine ==
  \/ CosineAB
  \/ CosineBA
  \/ CosineAA

SpecCosine == InitCosine /\ [][NextCosine]_vars

\* NewStorage (lines 31-69) on a fresh database file: the table is empty
InitStore ==
  /\ table = <<>>
  /\ lastUpsert = <<>>
  /\ lastOp = NoOp
  /\ cfgMaxDepth = 0
  /\ cfgMaxConcurrent = 1
  /\ held = 0
  /\ CrawlIdle
  /\ LimiterIdle
  /\ SearchIdle
  /\ CosineIdle
  /\ PageIdle

NextStore ==
  \/ UpsertDocument
  \/ DeleteDocumentsByPrefix
  \/ Clean
  \/ GetDocument
  \/ ListDocumentsCall
  \/ ListDocumentsToolCall
  \/ SearchDocChunksCall
  \/ SearchCall
  \/ StatementFails

SpecStore == InitStore /\ [][NextStore]_vars

\* New (lines 263-280): Content is nil, Metadata is empty; the server holds
\* some document
InitPage ==
  /\ page \in Pages
  /\ Content = NilNode
  /\ Metadata = NoMetadata
  /\ contentFetched = FALSE
  /\ pageOp = PageOp("none", FALSE, NilNode, <<>>)
  /\ cfgMaxDepth = 0
  /\ cfgMaxConcurrent = 1
  /\ held = 0
  /\ CrawlIdle
  /\ LimiterIdle
  /\ SearchIdle
  /\ CosineIdle
  /\ StoreIdle

NextPage ==
  \/ GetContentOk
  \/ GetContentFail
  \/ GetMetadata
  \/ ScrapeContentOk
  \/ ScrapeContentFail

SpecPage == InitPage /\ [][NextPage]_vars

Init ==
  \/ InitCrawl \/ InitSite \/ InitRepeat \/ InitChain \/ InitLinks
  \/ InitLimiter \/ InitSearch \/ InitCosine \/ InitStore \/ InitPage
Next ==
  \/ NextCrawl \/ NextSite \/ NextRepeat \/ NextCycle \/ NextChain \/ NextLinks
  \/ NextLimiter \/ NextLimiterFair \/ NextSearch \/ NextBest \/ NextCosine \/ NextStore \/ NextPage
Spec == Init /\ [][Next]_vars


(***************************************************************************)
(* Properties of the crawl (SpecCrawl).                                    *)
(***************************************************************************)
CallIds == 1..Len(calls)
Finished == result \in {"ok", "error"}
HostOf(urlStr) == urlStr[2]
Fetches(urlStr) == {i \in 1..Len(fetchLog) : fetchLog[i] = urlStr}

\* C1: during a crawl the visited set only grows, a URL string is in the
\* visited set before fetchURL is called with it, and fetchURL is never called
\* with a URL string it was already called with.
C1_VisitedBeforeSingleFetch ==
  [][/\ visited \subseteq visited'
     /\ fetchLog' # fetchLog =>
          /\ fetchLog'[Len(fetchLog')] \in visited
          /\ Fetches(fetchLog'[Len(fetchLog')]) = {}]_vars

\* C1 witness: a crawl that met an already visited URL again (a cycle or a
\* repeated link) after it had fetched two pages.
C1_Witness ==
  /\ Finished
  /\ Len(fetchLog) >= 2
  /\ \E c \in CallIds : calls[c].outcome = "skippedVisited"

\* C2: the seed is crawled at depth 0 and every link at its parent's depth
\* plus one; nothing is fetched or marked visited at a depth above MaxDepth;
\* with MaxDepth >= 0 the seed is fetched, and with MaxDepth = 0 it is the
\* only page fetched.
C2_DepthBounded ==
  /\ \A c \in CallIds :
       /\ calls[c].parent = 0 => calls[c].depth = 0 /\ calls[c].url = SeedURL
       /\ calls[c].parent # 0 => calls[c].depth = calls[calls[c].parent].depth + 1
       /\ calls[c].fetched => calls[c].depth <= cfgMaxDepth
  /\ \A v \in visited :
       \E c \in CallIds : String(calls[c].url) = v /\ calls[c].depth <= cfgMaxDepth
  /\ Finished /\ seedOK /\ cfgMaxDepth >= 0 =>
       Len(fetchLog) >= 1 /\ fetchLog[1] = String(SeedURL)
  /\ Finished /\ seedOK /\ cfgMaxDepth = 0 => fetchLog = <<String(SeedURL)>>

\* C2 witness: a finished crawl with MaxDepth = 0 whose seed page has links
\* to other pages of the host, none of which was fetched.
C2_Witness ==
  /\ result = "ok"
  /\ cfgMaxDepth = 0
  /\ Len(calls[1].links) = MaxLinks
  /\ \E c \in CallIds : calls[c].outcome = "skippedDepth"
  /\ Len(fetchLog) = 1

\* the scenario of C3: the seed page links to /a of its host and to /b of
\* another host
ScenarioBody == <<Abs("ex.com", "/a"), Abs("other.com", "/b")>>

\* C3: every visited URL, every fetched URL and every URL whose body is
\* stored has the host of the seed; when the seed page links to
\* http://ex.com/a and http://other.com/b and MaxDepth = 1, the visited set
\* ends as the seed and http://ex.com/a.
C3_SameHostOnly ==
  /\ \A v \in visited : HostOf(v) = SeedURL.host
  /\ \A i \in 1..Len(fetchLog) : HostOf(fetchLog[i]) = SeedURL.host
  /\ \A k \in DOMAIN SubPathsHTMLContent :
       HostOf(SubPathsHTMLContent[k].from) = SeedURL.host
  /\ (/\ Finished
      /\ cfgMaxDepth = 1
      /\ "/" \in DOMAIN SubPathsHTMLContent
      /\ SubPathsHTMLContent["/"].body = ScenarioBody)
     => visited = {String(SeedURL), String(PageA)}

\* C3 witness: the scenario has run to its end
C3_Witness ==
  /\ result = "ok"
  /\ cfgMaxDepth = 1
  /\ "/" \in DOMAIN SubPathsHTMLContent
  /\ SubPathsHTMLContent["/"].body = ScenarioBody
  /\ visited = {String(SeedURL), String(PageA)}

\* C7: when the fetch of a page other than the seed fails, the Crawl call of
\* its parent still makes a Crawl call for every later link of the parent and
\* returns no error, and GetAllPaths returns no error.
C7_FailureSparesSiblings ==
  \A c \in CallIds :
     calls[c].outcome = "failed" /\ calls[c].parent # 0 =>
       LET p == calls[c].parent
       IN /\ calls[p].outcome \in {"running", "ok"}
          /\ result \in {"running", "ok"}
          /\ calls[p].outcome = "ok" =>
               \A j \in (calls[c].idx + 1)..Len(calls[p].links) :
                  \E d \in CallIds : calls[d].parent = p /\ calls[d].idx = j

\* C7 witness: a finished crawl in which the fetch of a link failed and a
\* later link of the same page was fetched
C7_Witness ==
  /\ result = "ok"
  /\ \E c, d \in CallIds :
       /\ calls[c].outcome = "failed"
       /\ calls[c].parent # 0
       /\ calls[d].parent = calls[c].parent
       /\ calls[d].idx > calls[c].idx
       /\ calls[d].fetched
       /\ calls[d].outcome = "ok"

Holders == {p \in Callers : pc[p] \in {"lock", "sleep", "stamp", "request"}}

RECURSIVE SumSlots(_)
SumSlots(n) == IF n = 0 THEN 0 ELSE SumSlots(n - 1) + slots[n]

\* C4: any two consecutive requests to the same host start at least
\* RequestDelay apart, whatever the interleaving of the concurrent callers.
C4_MinGapPerHost ==
  \A h \in DOMAIN lastGap : lastGap[h] >= cfgRequestDelay

\* C5: the number of callers that hold a slot of the limiter is never above
\* MaxConcurrent.
C5_AtMostMaxConcurrent ==
  /\ Cardinality(Holders) <= cfgMaxConcurrent
  /\ held <= cfgMaxConcurrent

\* C5 witness: all slots are taken and a further caller waits for one
C5_Witness ==
  /\ held = cfgMaxConcurrent
  /\ \E p \in Callers : pc[p] = "sem"

\* C6: a fetchURL call holds at most one slot, holds none once it has
\* returned, whatever its outcome, and a call that failed to parse its URL
\* never held one; so with no call in progress no slot is held.
C6_SlotReleasedOnEveryReturn ==
  /\ \A p \in Callers :
       /\ slots[p] = (IF p \in Holders THEN 1 ELSE 0)
       /\ pc[p] = "idle" => slots[p] = 0
  /\ held = SumSlots(NumCallers)
  /\ (\A p \in Callers : pc[p] = "idle") => held = 0

\* C6 witness: every call has returned, the last of them with a timeout
C6_Witness ==
  /\ \A p \in Callers : pc[p] = "idle"
  /\ lastOutcome = "timeout"
  /\ held = 0

(***************************************************************************)
(* Properties of the ranked Search (SpecSearch).                           *)
(***************************************************************************)
\* the stored rows Search is to rank: those of the context whose embedding is
\* not empty and has the length of the query's
Eligible ==
  {i \in 1..Len(store) :
     /\ searchCtx = "" \/ store[i].context = searchCtx
     /\ Len(store[i].emb) > 0
     /\ Len(store[i].emb) = Len(query)}

ScoreOf(i) ==
  LET sim == cosineSimilarity(query, store[i].emb)
  IN [num |-> sim.num, den2 |-> sim.den2]

Min(a, b) == IF a < b THEN a ELSE b

OutUrls == [k \in 1..Len(searchOut) |-> searchOut[k].doc.url]

\* the result is a choice of the numResults best eligible rows (all of them
\* when there are fewer), best first
IsTopK ==
  /\ Len(searchOut) = Min(numResults, Cardinality(Eligible))
  /\ \A k \in 1..Len(searchOut) :
       /\ OutUrls[k] \in Eligible
       /\ searchOut[k].doc = store[OutUrls[k]]
       /\ searchOut[k].score = ScoreOf(OutUrls[k])
  /\ \A k, l \in 1..Len(searchOut) : k # l => OutUrls[k] # OutUrls[l]
  /\ \A i \in Eligible :
       (\A k \in 1..Len(searchOut) : OutUrls[k] # i) =>
          \A k \in 1..Len(searchOut) : ~ScoreGT(ScoreOf(i), searchOut[k].score)

\* the scenario of C9: A = [1, 0], B = [0, 1], C = [0.7, 0.7], query [1, 0],
\* K = 2
Scenario9 ==
  /\ Len(store) = 3
  /\ store[1].emb = <<10, 0>>
  /\ store[2].emb = <<0, 10>>
  /\ store[3].emb = <<7, 7>>
  /\ \A i \in 1..3 : searchCtx = "" \/ store[i].context = searchCtx
  /\ query = <<10, 0>>
  /\ numResults = 2

\* C9: Search by query string returns the numResults highest scoring eligible
\* documents of the context (all eligible ones when there are fewer); for the
\* query [1, 0] over A = [1, 0], B = [0, 1], C = [0.7, 0.7] with
\* numResults = 2 it returns A, then C.
C9_QuerySearchTopK ==
  (searchPc = "done" /\ searchVariant = "query" /\ searchErr # "collaborator") =>
     /\ IsTopK
     /\ Scenario9 => OutUrls = <<1, 3>>

\* C9 witness: the scenario has run
C9_Witness ==
  /\ searchPc = "done"
  /\ searchVariant = "query"
  /\ searchErr = ""
  /\ Scenario9
  /\ OutUrls = <<1, 3>>

\* C10: Search by query embedding returns the numResults highest scoring
\* eligible documents among all stored documents of the context, whatever
\* their number and order in the store.
C10_EmbeddingSearchTopK ==
  (searchPc = "done" /\ searchVariant = "embedding" /\ searchErr # "collaborator") =>
     IsTopK


\* two results have the same score
SameScore(r, t) == ~ScoreGT(r.score, t.score) /\ ~ScoreGT(t.score, r.score)

\* C11: the list a Search returns is in non-increasing order of score, is not
\* longer than numResults and not longer than the number of documents of the
\* context left after skipping empty and length-mismatched embeddings.
C11_SortedAndCapped ==
  searchPc = "done" =>
     /\ \A k, l \in 1..Len(searchOut) :
          k < l => ~ScoreGT(searchOut[l].score, searchOut[k].score)
     /\ Len(searchOut) <= numResults
     /\ Len(searchOut) <= Cardinality(Eligible)

\* C11 witness: a Search by query string that had more eligible documents
\* than numResults and returned two of them with different scores
C11_Witness ==
  /\ searchPc = "done"
  /\ searchVariant = "query"
  /\ searchErr = ""
  /\ numResults = 2
  /\ Cardinality(Eligible) > numResults
  /\ Len(searchOut) = 2
  /\ ScoreGT(searchOut[1].score, searchOut[2].score)

\* C12: in the result of Search by query string, documents of equal score
\* keep the order storage returned them in (row i of the store has URL i), also
\* across the cut: a document left out never precedes, in the store, a
\* returned document of the same score.
C12_StableTieBreak ==
  (searchPc = "done" /\ searchVariant = "query" /\ searchErr = "") =>
     /\ \A k, l \in 1..Len(searchOut) :
          (k < l /\ SameScore(searchOut[k], searchOut[l])) => OutUrls[k] < OutUrls[l]
     /\ \A i \in Eligible : \A k \in 1..Len(searchOut) :
          (/\ \A l \in 1..Len(searchOut) : OutUrls[l] # i
           /\ SameScore([score |-> ScoreOf(i)], searchOut[k])) => OutUrls[k] < i

\* C13: a Search by query string returns no document whose embedding is empty
\* or of another length than the query's; unless a collaborator fails, it
\* returns no error when the context has documents, and it returns every
\* eligible document of the context up to numResults.
C13_SkipsAreLocal ==
  (searchPc = "done" /\ searchVariant = "query" /\ searchErr # "collaborator") =>
     /\ \A k \in 1..Len(searchOut) :
          /\ Len(searchOut[k].doc.emb) > 0
          /\ Len(searchOut[k].doc.emb) = Len(query)
     /\ SearchDocChunks(store, searchCtx) # <<>> => searchErr = ""
     /\ Len(searchOut) = Min(numResults, Cardinality(Eligible))
     /\ \A k \in 1..Len(searchOut) : OutUrls[k] \in Eligible

\* C13 witness: the store's first row was skipped (empty embedding), its
\* second for its length, and the third row, eligible, was returned
C13_Witness ==
  /\ searchPc = "done"
  /\ searchVariant = "query"
  /\ searchErr = ""
  /\ Len(store) = 3
  /\ store[1].emb = <<>>
  /\ Len(store[2].emb) = 1
  /\ Len(query) = 2
  /\ OutUrls = <<3>>

\* C14: a Search by query string returns an error exactly when a collaborator
\* fails or the store has no document of the context; with an error it
\* returns no result; when the context has documents and all of them are
\* skipped it returns an empty result and no error.
C14_ErrorIffEmptyCorpus ==
  (searchPc = "done" /\ searchVariant = "query") =>
     /\ searchErr # "" <=>
          (searchErr = "collaborator" \/ SearchDocChunks(store, searchCtx) = <<>>)
     /\ searchErr # "" => searchOut = <<>>
     /\ (searchErr = "" /\ Eligible = {}) => searchOut = <<>>

\* C14 witness: the context has documents, every one of them with an empty
\* embedding, and Search returned an empty result and no error
C14_Witness ==
  /\ searchPc = "done"
  /\ searchVariant = "query"
  /\ numResults > 0
  /\ SearchDocChunks(store, searchCtx) # <<>>
  /\ \A i \in 1..Len(store) : store[i].emb = <<>>
  /\ searchErr = ""
  /\ searchOut = <<>>

(***************************************************************************)
(* Properties of cosineSimilarity (SpecCosine).                            *)
(***************************************************************************)
\* the magnitude of v is exactly 0: v has no component other than 0
ZeroVec(v) == \A i \in 1..Len(v) : v[i] = 0

One == Float(1)

\* |v - 1| is at most 4 * 2^(-SigBits), four units of rounding
NearOne(v) ==
  /\ ~v.nan
  /\ v.s = 1
  /\ \/ v.e = -(SigBits - 1) /\ 2 * (v.m - Pow2(SigBits - 1)) <= 4
     \/ v.e = -SigBits /\ Pow2(SigBits) - v.m <= 4

\* C15: cosineSimilarity(a, b) returns an error when the lengths of a and b
\* differ, and returns 0 and no error when the lengths are equal and a or b
\* has magnitude exactly 0 (both of length 0 included).
C15_ZeroMagnitudeIsZero ==
  "ab" \in cosDone =>
     /\ Len(vecA) # Len(vecB) => cosOut["ab"].err
     /\ (Len(vecA) = Len(vecB) /\ (ZeroVec(vecA) \/ ZeroVec(vecB))) =>
          ~cosOut["ab"].err /\ cosOut["ab"].val = Zero

\* C15 witness: a is the zero vector of length 2, b is not, and the call
\* returned 0 with no error
C15_Witness ==
  /\ "ab" \in cosDone
  /\ vecA = <<0, 0>>
  /\ Len(vecB) = 2
  /\ ~ZeroVec(vecB)
  /\ cosOut["ab"] = [err |-> FALSE, val |-> Zero]

\* C16: for vectors a and b of equal length, cosineSimilarity(a, b) and
\* cosineSimilarity(b, a) return the same value.
C16_Symmetric ==
  ({"ab", "ba"} \subseteq cosDone /\ Len(vecA) = Len(vecB)) =>
     cosOut["ab"] = cosOut["ba"]

\* C16 witness: two vectors of different magnitudes, not orthogonal, compared
\* in both orders with the same rounded result
C16_Witness ==
  /\ {"ab", "ba"} \subseteq cosDone
  /\ Len(vecA) = 2
  /\ Len(vecB) = 2
  /\ SumProd(vecA, vecA, 2) # SumProd(vecB, vecB, 2)
  /\ cosOut["ab"].val.m # 0
  /\ cosOut["ab"].val # One
  /\ cosOut["ab"] = cosOut["ba"]

\* C17 as stated: for every vector a of nonzero magnitude,
\* cosineSimilarity(a, a) returns exactly 1.
C17_SelfIsExactlyOne ==
  ("aa" \in cosDone /\ ~ZeroVec(vecA)) =>
     ~cosOut["aa"].err /\ cosOut["aa"].val = One

\* C17 amended: for every vector a of nonzero magnitude, cosineSimilarity(a, a)
\* returns no error and a value within four units of rounding of 1.
C17_SelfIsNearOne ==
  ("aa" \in cosDone /\ ~ZeroVec(vecA)) =>
     ~cosOut["aa"].err /\ NearOne(cosOut["aa"].val)

\* C17 witness: a vector of two nonzero components whose similarity with
\* itself is rounded to a value close to 1 that is not 1
C17_Witness ==
  /\ "aa" \in cosDone
  /\ Len(vecA) = 2
  /\ vecA[1] # 0
  /\ vecA[2] # 0
  /\ cosOut["aa"].val # One
  /\ NearOne(cosOut["aa"].val)

(***************************************************************************)
(* Properties of the store (SpecStore).                                    *)
(***************************************************************************)
\* str begins with the characters of prefix
HasPrefix(str, prefix) ==
  Len(prefix) <= Len(str) /\ SubSeq(str, 1, Len(prefix)) = prefix

\* the rows of the table before the last operation that are no longer in it
Gone == {i \in 1..Len(lastOp.before) : lastOp.before[i] \notin Range(table)}

\* what GetDocument(url, "") is to return
Expected(url) ==
  IF url \in DOMAIN lastUpsert THEN [found |-> TRUE, doc |-> lastUpsert[url]]
  ELSE NotFound

\* C18: with a context c other than "", ListDocuments, SearchDocChunks and
\* Search return only documents of context c and DeleteDocumentsByPrefix
\* removes only rows of context c; with the context "" the reads return the
\* rows of every context and the delete removes the rows of every context
\* whose URL begins with the prefix.
C18_ContextPartitions ==
  /\ lastOp.op \in {"list", "chunks"} =>
       /\ lastOp.args.ctx # "" =>
            \A k \in 1..Len(lastOp.result) : lastOp.result[k].context = lastOp.args.ctx
       /\ (lastOp.args.ctx = "" /\ lastOp.op = "chunks") => lastOp.result = Scan(table)
       /\ (lastOp.args.ctx = "" /\ lastOp.op = "list") =>
            lastOp.result = SubSeq(Scan(table), 1, Min(lastOp.args.limit, Len(table)))
  /\ lastOp.op = "search" =>
       /\ lastOp.args.ctx # "" =>
            \A k \in 1..Len(lastOp.result) :
               lastOp.result[k].doc.context = lastOp.args.ctx
       /\ (lastOp.args.ctx = "" /\ ~lastOp.err) =>
            /\ Len(lastOp.result) = Min(lastOp.args.limit, Len(table))
            /\ \A k \in 1..Len(lastOp.result) :
                  lastOp.result[k].doc \in Range(Scan(table))
  /\ lastOp.op = "delete" =>
       /\ lastOp.args.ctx # "" =>
            \A i \in Gone : lastOp.before[i].context = lastOp.args.ctx
       /\ lastOp.args.ctx = "" =>
            \A i \in 1..Len(lastOp.before) :
               HasPrefix(lastOp.before[i].url, lastOp.args.prefix) => i \in Gone

\* C18 witness: the table holds rows of both contexts and a Search in context
\* "a" returned a document
C18_Witness ==
  /\ lastOp.op = "search"
  /\ lastOp.args.ctx = "a"
  /\ \E i, j \in 1..Len(table) : table[i].context = "a" /\ table[j].context = "b"
  /\ Len(lastOp.result) >= 1

\* C19: the table never holds two rows of one URL; GetDocument(url, "")
\* returns the document of the last successful UpsertDocument of the URL,
\* equal to it in every field, or 'document not found' when the URL was never
\* upserted or its row was removed since; upserting the document just
\* upserted once more leaves the table as it is.
C19_UpsertReplacesByURL ==
  /\ \A i, j \in 1..Len(table) : i # j => table[i].url # table[j].url
  /\ \A u \in Urls : SelectDocument(table, u, "") = Expected(u)
  /\ (lastOp.op = "get" /\ lastOp.args.ctx = "") =>
       /\ lastOp.result = Expected(lastOp.args.url)
       /\ lastOp.err = ~lastOp.result.found
  /\ lastOp.op = "upsert" => UpsertRows(table, lastOp.args.doc) = table

\* C19 witness: GetDocument returned the second version of a URL whose row
\* stands after the row of another URL in the table
C19_Witness ==
  /\ lastOp.op = "get"
  /\ lastOp.args.ctx = ""
  /\ lastOp.result = [found |-> TRUE, doc |-> NewDocument(<<"a", "b">>, 2, "b")]
  /\ Len(table) = 2
  /\ table[1].url = <<"B">>

\* C20: DeleteDocumentsByPrefix(prefix, context) leaves in the table exactly
\* the rows, unchanged and in their order, whose URL does not begin with the
\* characters of prefix or whose context is not the given, non-empty context.
C20_DeletesExactlyThePrefix ==
  lastOp.op = "delete" =>
     LET Stays(r) == ~(/\ HasPrefix(r.url, lastOp.args.prefix)
                       /\ lastOp.args.ctx = "" \/ r.context = lastOp.args.ctx)
     IN table = SelectSeq(lastOp.before, Stays)

(***************************************************************************)
(* Properties of the crawl of a site (SpecSite).                           *)
(***************************************************************************)
\* the same-host pages the stored body of page u links to (none when the page
\* was not fetched)
LinkedFrom(u) ==
  IF PathKey(u) \in DOMAIN SubPathsHTMLContent
  THEN LET body == SubPathsHTMLContent[PathKey(u)].body
       IN {ResolveReference(SeedURL, body[i]) :
             i \in {j \in 1..Len(body) :
                      /\ ParseOK(body[j])
                      /\ ResolveReference(SeedURL, body[j]).host = SeedURL.host}}
  ELSE {}

\* the pages at most k links away from the seed
RECURSIVE Within(_)
Within(k) ==
  IF k <= 0 THEN {SeedURL}
  ELSE Within(k - 1) \cup UNION {LinkedFrom(u) : u \in Within(k - 1)}

AllFetchesSucceeded == \A c \in CallIds : calls[c].outcome # "failed"

\* C21: when GetAllPaths has returned and no fetch failed, every page of the
\* host at most MaxDepth links away from the seed has been fetched and its
\* path is in SubPaths.
C21_CoversAllWithinMaxDepth ==
  (result = "ok" /\ AllFetchesSucceeded) =>
    \A u \in Within(cfgMaxDepth) :
       /\ String(u) \in Range(fetchLog)
       /\ PathKey(u) \in SubPaths

(***************************************************************************)
(* Further properties of the limiter (SpecLimiter).                        *)
(***************************************************************************)
\* C22: a caller sleeps in waitForRateLimit only for a host that has a
\* last-request time: the caller that holds a slot and finds none for its host
\* goes on to stamp the host and to its request without a sleep (no wake-up
\* time is set for it).
C22_FirstRequestDoesNotSleep ==
  \A p \in Callers :
     /\ pc[p] = "sleep" => callHost[p] \in DOMAIN lastRequestTime
     /\ (pc[p] = "stamp" /\ callHost[p] \notin DOMAIN lastRequestTime) => wake[p] = 0

\* C22 witness: the request of a host without an entry has started, at the
\* time the Scraper was made, while another caller sleeps for the same host
C22_Witness ==
  \E p, q \in Callers :
     /\ pc[p] = "request"
     /\ pc[q] = "sleep"
     /\ callHost[p] = callHost[q]
     /\ callHost[p] \notin DOMAIN lastGap
     /\ lastRequestTime[callHost[p]] = 0

(***************************************************************************)
(* Properties of the page (SpecPage).                                      *)
(***************************************************************************)
\* the nodes of a tree in pre-order
RECURSIVE PreOrder(_)
RECURSIVE PreOrderOfKids(_)
PreOrder(n) == <<n>> \o PreOrderOfKids(n.kids)

PreOrderOfKids(kids) ==
  IF kids = <<>> THEN <<>> ELSE PreOrder(Head(kids)) \o PreOrderOfKids(Tail(kids))

\* the places of the tree's elements with the given tag, in pre-order
Elements(tree, tag) ==
  {i \in 1..Len(PreOrder(tree)) :
     PreOrder(tree)[i].type = "element" /\ PreOrder(tree)[i].data = tag}

\* the text of a <title> element: that of its only text node, if it has one
TextOfTitle(t) == IF t.kids = <<>> THEN "" ELSE t.kids[1].data

\* the value of the content attribute of a <meta> element, "" without one
ContentAttr(m) ==
  IF \E i \in 1..Len(m.attr) : m.attr[i].Key = "content"
  THEN m.attr[CHOOSE i \in 1..Len(m.attr) : m.attr[i].Key = "content"].Val
  ELSE ""

\* the places of the <meta name="description"> elements
Descriptions(tree) ==
  {i \in Elements(tree, "meta") :
     \E k \in 1..Len(PreOrder(tree)[i].attr) :
        PreOrder(tree)[i].attr[k] = Attr("name", "description")}

MetadataExtracted == pageOp.op = "GetMetadata" /\ ~pageOp.err

\* the scenario of C23:
\* <html><head><title>T</title><meta name="description" content="D"></head></html>
ScenarioHead ==
  <<Elem("title", <<>>, <<Text("T")>>),
    Elem("meta", <<Attr("name", "description"), Attr("content", "D")>>, <<>>)>>

ScenarioMetadata ==
  (MetadataExtracted /\ Content = Page(ScenarioHead, <<>>)) =>
     Metadata = [Title |-> "T", Description |-> "D"]

\* C23 as stated: the title is the text of the first <title> element in
\* pre-order, "" without one; the description is the content attribute of the
\* first <meta name="description"> element in pre-order, "" without one; the
\* scenario gives "T" and "D".
C23_FirstMatchWins ==
  /\ MetadataExtracted =>
       /\ Metadata.Title =
            IF Elements(Content, "title") = {} THEN ""
            ELSE TextOfTitle(PreOrder(Content)[First(Elements(Content, "title"))])
       /\ Metadata.Description =
            IF Descriptions(Content) = {} THEN ""
            ELSE ContentAttr(PreOrder(Content)[First(Descriptions(Content))])
  /\ ScenarioMetadata

\* the <title> elements that have text
TitlesWithText(tree) ==
  {i \in Elements(tree, "title") : TextOfTitle(PreOrder(tree)[i]) # ""}

\* the <meta name="description"> elements whose content is not empty
DescriptionsWithContent(tree) ==
  {i \in Descriptions(tree) : ContentAttr(PreOrder(tree)[i]) # ""}

\* C23 amended: the title is the text of the first <title> element in
\* pre-order that has text, "" without one; the description is the content
\* attribute of the first <meta name="description"> element in pre-order whose
\* content is not empty, "" without one; the scenario gives "T" and "D".
C23_FirstNonEmptyMatchWins ==
  /\ MetadataExtracted =>
       /\ Metadata.Title =
            IF TitlesWithText(Content) = {} THEN ""
            ELSE TextOfTitle(PreOrder(Content)[First(TitlesWithText(Content))])
       /\ Metadata.Description =
            IF DescriptionsWithContent(Content) = {} THEN ""
            ELSE ContentAttr(PreOrder(Content)[First(DescriptionsWithContent(Content))])
  /\ ScenarioMetadata

\* C23 witness: the metadata of a page whose first <title> is empty and whose
\* first description has an empty content, each followed by one that is not
C23_Witness ==
  /\ MetadataExtracted
  /\ \/ /\ Elements(Content, "title") # {}
        /\ First(Elements(Content, "title")) \notin TitlesWithText(Content)
        /\ Metadata.Title = "U"
     \/ /\ Descriptions(Content) # {}
        /\ First(Descriptions(Content)) \notin DescriptionsWithContent(Content)
        /\ Metadata.Description = "D"

\* the places of the elements that are <main> or <article>
MainOrArticle(tree) == Elements(tree, "main") \cup Elements(tree, "article")

\* the places of the elements whose id attribute is "content" or "main"
ContentIds(tree) ==
  {i \in 1..Len(PreOrder(tree)) :
     /\ PreOrder(tree)[i].type = "element"
     /\ \E k \in 1..Len(PreOrder(tree)[i].attr) :
          PreOrder(tree)[i].attr[k] \in {Attr("id", "content"), Attr("id", "main")}}

Scraped == pageOp.op = "ScrapeContent"

\* C24 as stated: the main content node is the first <main> or <article>
\* element if there is one; otherwise the first element with id "content" or
\* "main"; otherwise the <body> element; otherwise the whole tree.
C24_MainByPriority ==
  Scraped =>
    /\ ~pageOp.err
    /\ pageOp.main =
         IF MainOrArticle(Content) # {}
         THEN PreOrder(Content)[First(MainOrArticle(Content))]
         ELSE IF ContentIds(Content) # {}
         THEN PreOrder(Content)[First(ContentIds(Content))]
         ELSE IF Elements(Content, "body") # {}
         THEN PreOrder(Content)[First(Elements(Content, "body"))]
         ELSE Content

\* C24 amended: the main content node is the first element in pre-order that
\* is a <main> or <article> or has id "content" or "main", whichever of these
\* comes first; otherwise the <body> element; without a <body> there is none
\* and ScrapeContent returns an error.
C24_MainByFirstMatch ==
  Scraped =>
    LET matches == MainOrArticle(Content) \cup ContentIds(Content)
    IN /\ pageOp.err <=> (matches = {} /\ Elements(Content, "body") = {})
       /\ pageOp.main =
            IF matches # {} THEN PreOrder(Content)[First(matches)]
            ELSE IF Elements(Content, "body") # {}
            THEN PreOrder(Content)[First(Elements(Content, "body"))]
            ELSE NilNode

\* C24 witness: a page on which an element with id "content" or "main" comes
\* before the first <main> or <article>, and was chosen
C24_Witness ==
  /\ Scraped
  /\ MainOrArticle(Content) # {}
  /\ ContentIds(Content) # {}
  /\ First(ContentIds(Content)) < First(MainOrArticle(Content))
  /\ pageOp.main = PreOrder(Content)[First(ContentIds(Content))]

\* the text nodes of a subtree in document order, each with whether it lies
\* inside a <script> or <style> element
RECURSIVE TextNodes(_, _)
RECURSIVE TextNodesOfKids(_, _)
TextNodes(n, inside) ==
  IF n.type = "text" THEN <<[data |-> n.data, inside |-> inside]>>
  ELSE TextNodesOfKids(n.kids,
                       inside \/ (n.type = "element" /\ n.data \in {"script", "style"}))

TextNodesOfKids(kids, inside) ==
  IF kids = <<>> THEN <<>>
  ELSE TextNodes(Head(kids), inside) \o TextNodesOfKids(Tail(kids), inside)

Outside(t) == ~t.inside
IsWord(piece) == piece # " "

\* the texts outside <script> and <style>, in document order
VisibleTexts(n) ==
  LET ts == SelectSeq(TextNodes(n, FALSE), Outside)
  IN [i \in 1..Len(ts) |-> ts[i].data]

\* the scenario of C25: <main>Hello<script>ignored</script></main>
ScenarioMain ==
  Elem("main", <<>>, <<Text("Hello"), Elem("script", <<>>, <<Text("ignored")>>)>>)

\* C25: the text ScrapeContent returns for the main content node is, spaces
\* aside, the texts of the node's text nodes in document order without those
\* inside a <script> or <style>; for the scenario it has "Hello" and has not
\* "ignored".
C25_TextInOrderWithoutScripts ==
  (Scraped /\ ~pageOp.err) =>
    /\ SelectSeq(pageOp.text, IsWord) = VisibleTexts(pageOp.main)
    /\ pageOp.main = ScenarioMain =>
         /\ "Hello" \in Range(pageOp.text)
         /\ "ignored" \notin Range(pageOp.text)

\* C25 witness: the text returned for a main content node that holds the text
\* "Hello" and a text inside a <script> or <style>
C25_Witness ==
  /\ Scraped
  /\ ~pageOp.err
  /\ \E i \in 1..Len(pageOp.text) : pageOp.text[i] = "Hello"
  /\ \E i \in 1..Len(TextNodes(pageOp.main, FALSE)) :
        TextNodes(pageOp.main, FALSE)[i].inside
  /\ Len(VisibleTexts(pageOp.main)) >= 1

\* C26: a GetMetadata call returns an error exactly when Content is nil, and
\* then leaves Metadata as it was; Content is nil exactly as long as no
\* GetContent call has succeeded; a GetContent call that fails leaves Content
\* as it was.
C26_MetadataNeedsContent ==
  [][/\ pageOp'.op = "GetMetadata" =>
          /\ pageOp'.err <=> Content = NilNode
          /\ pageOp'.err => Metadata' = Metadata
          /\ ~pageOp'.err => Metadata' = [Title |-> extractTitle(Content),
                                          Description |-> extractDescription(Content)]
     /\ (Content = NilNode <=> ~contentFetched)
     /\ (Content' = NilNode <=> ~contentFetched')
     /\ (pageOp'.op \in {"GetContent", "ScrapeContentFetch"} /\ pageOp'.err) =>
          Content' = Content]_vars

\* C26 witness: GetMetadata has returned its error on a Scraper on which no
\* GetContent call has succeeded
C26_Witness ==
  /\ pageOp.op = "GetMetadata"
  /\ pageOp.err
  /\ Content = NilNode
  /\ ~contentFetched
  /\ Metadata = NoMetadata

(***************************************************************************)
(* Further properties of the store (SpecStore).                            *)
(***************************************************************************)
\* the stored documents of a context in the order of the listing, all of them
\* for the empty context
Listing(ctx) ==
  LET all == Scan(table)
      keep(d) == ctx = "" \/ d.context = ctx
  IN SelectSeq(all, keep)

\* C27: a call of list_documents never fails with an index out of range, and
\* with offset o >= 0 and limit l > 0 it returns the documents at the
\* positions o .. o+l-1 of the listing of the context (those that exist) and
\* as total the number of stored documents of the context.
C27_Pagination ==
  lastOp.op = "list_documents" =>
    LET o == lastOp.args.offset
        l == lastOp.args.limit
        all == Listing(lastOp.args.ctx)
    IN /\ ~lastOp.err
       /\ (o >= 0 /\ l > 0) =>
            /\ lastOp.result.documents = SubSeq(all, o + 1, Min(o + l, Len(all)))
            /\ lastOp.result.total = Len(all)

(***************************************************************************)
(* Further properties of the crawl (SpecSite, SpecCrawl).                  *)
(***************************************************************************)
\* Crawl call e is call c or was made, directly or not, by call c
RECURSIVE Under(_, _)
Under(e, c) ==
  \/ e = c
  \/ calls[e].parent # 0 /\ Under(calls[e].parent, c)

\* the place in fetchLog of the fetch a Crawl call made
FetchPos(c) == CHOOSE i \in 1..Len(fetchLog) : fetchLog[i] = String(calls[c].url)

\* C28: the Crawl calls of a page take its links in the order of the page,
\* and for two links of a page every fetch made by the Crawl call of the
\* earlier link or by a call under it comes before the fetch of the later
\* link.
C28_DepthFirstInDocumentOrder ==
  \A c \in CallIds :
     calls[c].parent # 0 =>
       /\ calls[c].idx \in 1..Len(calls[calls[c].parent].links)
       /\ calls[c].url = calls[calls[c].parent].links[calls[c].idx]
       /\ \A d \in CallIds :
            (/\ calls[d].parent = calls[c].parent
             /\ calls[c].idx < calls[d].idx
             /\ calls[d].fetched) =>
               /\ calls[c].outcome # "running"
               /\ \A e \in CallIds :
                    (Under(e, c) /\ calls[e].fetched) => FetchPos(e) < FetchPos(d)

\* C28 witness: a finished crawl in which the first link of the seed page and
\* a page below it were fetched, and then the second link of the seed page
C28_Witness ==
  /\ result = "ok"
  /\ \E c, d, e \in CallIds :
       /\ calls[c].parent = 1 /\ calls[c].idx = 1 /\ calls[c].fetched
       /\ calls[d].parent = 1 /\ calls[d].idx = 2 /\ calls[d].fetched
       /\ calls[e].parent = c /\ calls[e].fetched
       /\ FetchPos(c) < FetchPos(e)
       /\ FetchPos(e) < FetchPos(d)

\* the Crawl calls whose fetch succeeded and that have returned
FetchedOk == {c \in CallIds : calls[c].outcome = "ok"}

\* the URLs of the seed's host that the anchors of a stored body lead to
SameHostLinks(body) ==
  {ResolveReference(SeedURL, body[i]) :
     i \in {j \in 1..Len(body) :
              /\ ParseOK(body[j])
              /\ ResolveReference(SeedURL, body[j]).host = SeedURL.host}}

\* C29: when GetAllPaths has returned, every link to the seed's host on every
\* page that was fetched at a depth below MaxDepth is in the visited set.
C29_FrontierExhausted ==
  Finished =>
    \A c \in FetchedOk :
       calls[c].depth < cfgMaxDepth =>
         \A u \in SameHostLinks(SubPathsHTMLContent[PathKey(calls[c].url)].body) :
            String(u) \in visited

\* C29 witness: a finished crawl with MaxDepth = 2 in which a page at depth 1
\* has a link to a page that the seed page does not link to, and the fetch of
\* a link failed
C29_Witness ==
  /\ result = "ok"
  /\ cfgMaxDepth = 2
  /\ \E c \in FetchedOk :
       /\ calls[c].depth = 1
       /\ \E u \in SameHostLinks(SubPathsHTMLContent[PathKey(calls[c].url)].body) :
            /\ u \notin SameHostLinks(SubPathsHTMLContent["/"].body)
            /\ u # SeedURL
            /\ String(u) \in visited
  /\ \E c \in CallIds : calls[c].outcome = "failed"

C31_OneEntryPerFetchedPage ==
  result = "ok" =>
    /\ \A c, d \in FetchedOk :
         calls[c].url # calls[d].url => PathKey(calls[c].url) # PathKey(calls[d].url)
    /\ Cardinality(SubPaths) = Cardinality(FetchedOk)
    /\ atCall.n = 1 => Cardinality(DOMAIN SubPathsHTMLContent) = Cardinality(FetchedOk)

(***************************************************************************)
(* Properties of GetContent followed by GetAllPaths (SpecChain).           *)
(***************************************************************************)
\* C32: with a MaxDepth of at least 0, GetAllPaths called after GetContent on
\* the same Scraper starts with an empty visited set and fetches the seed URL
\* again: fetchURL is called with the seed URL by GetContent and once more by
\* the crawl before GetAllPaths returns.  The Scraper keeps the host's last
\* request time between the two calls: every request to the host, the crawl's
\* fetch of the seed included, starts at least RequestDelay after the one
\* before it.
C32_SeedFetchedAgainAfterDelay ==
  /\ result = "running" /\ ~calls[1].fetched => String(SeedURL) \notin visited \/ top.pc = "fetch"
  /\ Finished =>
       /\ Len(fetchLog) >= 2
       /\ fetchLog[1] = String(SeedURL)
       /\ fetchLog[2] = String(SeedURL)
       /\ Cardinality(Fetches(String(SeedURL))) = 2
  /\ \A h \in DOMAIN lastGap : lastGap[h] >= cfgRequestDelay

\* C32 witness: GetContent succeeded, the crawl's fetch of the seed has just
\* started its request, RequestDelay after that of GetContent, with the largest
\* RequestDelay
C32_Witness ==
  /\ contentFetched
  /\ result = "running"
  /\ Len(fetchLog) = 2
  /\ pc[Main] = "request"
  /\ cfgRequestDelay = MaxDelayBound
  /\ lastGap = [h \in {"ex.com"} |-> MaxDelayBound]

(***************************************************************************)
(* Properties of extractLinks (SpecLinks).                                 *)
(***************************************************************************)
\* the values of the href attributes of the anchor elements of a tree, in
\* document order
RECURSIVE HrefsOf(_)
HrefsOf(nodes) ==
  IF nodes = <<>> THEN <<>>
  ELSE LET n == Head(nodes)
           own == IF n.type = "element" /\ n.data = "a"
                  THEN [i \in 1..Cardinality({j \in 1..Len(n.attr) : n.attr[j].Key = "href"}) |->
                          n.attr[CHOOSE j \in 1..Len(n.attr) :
                                    /\ n.attr[j].Key = "href"
                                    /\ Cardinality({k \in 1..j : n.attr[k].Key = "href"}) = i].Val]
                  ELSE <<>>
       IN own \o HrefsOf(Tail(nodes))

\* the places of hrefs whose value parses and, resolved against base, has the
\* base's host and is not in the visited set
KeptHrefs(hrefs, base, vis) ==
  {i \in 1..Len(hrefs) :
     /\ hrefs[i].kind # "bad"
     /\ ResolveReference(base, hrefs[i]).host = base.host
     /\ String(ResolveReference(base, hrefs[i])) \notin vis}

\* C33: extractLinks returns, in document order, the href of every anchor
\* element that parses, resolved against the base URL, whose host is the base
\* URL's and which is not in the visited set; an href that does not parse is
\* left out and the later ones are still returned.
C33_LinksInDocumentOrder ==
  pageOp.op = "extractLinks" =>
    LET hrefs == HrefsOf(PreOrder(page))
        kept == KeptHrefs(hrefs, pageOp.baseURL, visited)
        links == pageOp.links
    IN /\ Len(links) = Cardinality(kept)
       /\ \A i \in kept :
            links[Cardinality({k \in kept : k <= i})] = ResolveReference(pageOp.baseURL, hrefs[i])

\* C33 witness: a document whose first href does not parse, with a later link
\* that is returned and a link that parses and is left out
C33_Witness ==
  /\ pageOp.op = "extractLinks"
  /\ Len(pageOp.links) >= 1
  /\ LET hrefs == HrefsOf(PreOrder(page))
     IN /\ hrefs[1] = BadHref
        /\ \E i \in 1..Len(hrefs) :
             /\ hrefs[i].kind # "bad"
             /\ i \notin KeptHrefs(hrefs, pageOp.baseURL, visited)

(***************************************************************************)
(* Termination of the crawl (SpecCycleFair).                               *)
(***************************************************************************)
\* C34: on a finite site, with cycles among its links, for every MaxDepth and
\* every MaxConcurrent >= 1, a GetAllPaths call returns if every HTTP request
\* returns or times out.
C34_GetAllPathsTerminates == (result = "running") ~> Finished

\* C34 witness: GetAllPaths has returned from the crawl of a site in which /a
\* links to /a?p=2 and /a?p=2 back to /a, with the largest MaxDepth
C34_Witness ==
  /\ result = "ok"
  /\ cfgMaxDepth = MaxDepthBound
  /\ \E c, d \in FetchedOk :
       /\ calls[c].url = PageA
       /\ calls[d].url = URLQ("ex.com", "/a", "p=2")
       /\ calls[d].parent = c
       /\ calls[d].links = <<>>
       /\ Abs("ex.com", "/a") \in Range(SubPathsHTMLContent["/a"].body)
       /\ SubPathsHTMLContent["/a"].from = String(calls[d].url)

(***************************************************************************)
(* Progress of the limiter (SpecLimiterFair).                              *)
(***************************************************************************)
\* C35: for MaxConcurrent >= 1 and concurrent callers of fetchURL the limiter
\* does not deadlock: no caller holds the mutex while it waits for a slot,
\* sleeps or performs its request; every caller waiting for a slot gets one
\* and every call returns, provided every request in flight finishes.
C35_LimiterNeverDeadlocks ==
  /\ [](\A p \in Callers : pc[p] \in {"sem", "sleep", "request"} => mutex # p)
  /\ \A p \in Callers : (pc[p] = "sem") ~> (pc[p] = "lock" /\ slots[p] = 1)
  /\ \A p \in Callers : (pc[p] # "idle") ~> (pc[p] = "idle")

\* C35 witness: with one slot, a caller waits for the slot while the other
\* caller, which holds it, sleeps without the mutex
C35_Witness ==
  /\ cfgMaxConcurrent = 1
  /\ \E p, q \in Callers :
       /\ pc[p] = "sem"
       /\ pc[q] = "sleep"
       /\ slots[q] = 1
       /\ mutex = 0

(***************************************************************************)
(* The slots of requestSem during a crawl (SpecCrawl).                     *)
(***************************************************************************)
\* C36: a GetAllPaths call makes its fetches one after another: whatever
\* MaxConcurrent is, at most one slot of requestSem is held, it is held only
\* while the innermost Crawl call is inside fetchURL, and a page's links are
\* crawled with no slot held.
C36_OneFetchAtATime ==
  /\ held <= 1
  /\ held = 1 => result = "running" /\ top.pc = "fetching"
  /\ result = "running" /\ top.pc \in {"enter", "fetch", "loop"} => held = 0

\* C36 witness: with more than one slot, the fetch of a link is in progress,
\* after the fetch of the page that carries the link has ended
C36_Witness ==
  /\ cfgMaxConcurrent = MaxConcBound
  /\ MaxConcBound > 1
  /\ result = "running"
  /\ Len(stack) >= 2
  /\ top.pc = "fetching"
  /\ held = 1
  /\ \E c \in CallIds : c # top.id /\ calls[c].outcome = "failed"

\* C37: after every GetAllPaths call that returns success, a second or later
\* call on the same Scraper included, the paths in SubPaths are the keys of
\* SubPathsHTMLContent.
C37_SubPathsAreContentKeys ==
  result = "ok" => SubPaths = DOMAIN SubPathsHTMLContent

\* C38: when GetAllPaths returns an error, SubPaths and SubPathsHTMLContent
\* are as the call found them.
C38_ErrorLeavesResultsAlone ==
  result = "error" =>
    /\ SubPaths = atCall.SubPaths
    /\ SubPathsHTMLContent = atCall.content

\* C38 witness: a second GetAllPaths call has returned an error after the
\* fetch of the seed failed; the first call had found two paths
C38_Witness ==
  /\ result = "error"
  /\ atCall.n = 2
  /\ seedOK
  /\ Len(calls) = 1
  /\ calls[1].outcome = "failed"
  /\ Cardinality(SubPaths) = 2
  /\ DOMAIN SubPathsHTMLContent = SubPaths

(***************************************************************************)
(* Properties of the single-result Search (SpecBest).                      *)
(***************************************************************************)
\* the stored rows the single-result Search can return: those whose embedding
\* is not empty and has the length of the query's
EligibleAny ==
  {i \in 1..Len(store) : Len(store[i].emb) > 0 /\ Len(store[i].emb) = Len(query)}

\* C39: the single-result Search returns a document whenever some stored
\* document is eligible, the one of greatest similarity among the eligible
\* ones and on ties the first in storage order; it returns the error "could
\* not find a suitable document" only when no stored document is eligible.
C39_BestEligibleDocument ==
  (searchPc = "done" /\ searchVariant = "best" /\ searchErr # "collaborator") =>
     IF EligibleAny # {}
     THEN /\ searchErr = ""
          /\ Len(searchOut) = 1
          /\ searchOut[1].doc.url \in EligibleAny
          /\ searchOut[1].score = ScoreOf(searchOut[1].doc.url)
          /\ \A i \in EligibleAny :
               /\ ~ScoreGT(ScoreOf(i), searchOut[1].score)
               /\ i < searchOut[1].doc.url => ScoreGT(searchOut[1].score, ScoreOf(i))
     ELSE searchErr \in {"no documents", "could not find a suitable document"}

(***************************************************************************)
(* The contexts of the table documents (SpecStore).                        *)
(***************************************************************************)
\* C40: an upsert of a document with context B leaves the documents stored
\* under every other context A as they were: ListAllDocuments(A) and
\* GetDocument(url, A), for the URL of the document, return after the upsert
\* what they returned before it.
C40_UpsertLeavesOtherContexts ==
  [][(lastOp'.op = "upsert" /\ ~lastOp'.err) =>
       \A A \in Contexts \ {lastOp'.args.doc.context} :
          /\ ListAllDocuments(table', A) = ListAllDocuments(table, A)
          /\ SelectDocument(table', lastOp'.args.doc.url, A)
               = SelectDocument(table, lastOp'.args.doc.url, A)]_vars

=============================================================================
